---- MODULE Spec2Model ----
(***************************************************************************)
(* The validation engine of the Resource-Allocation Configurator           *)
(* (src/utils/validationUtils.ts, validateAllData) as a state machine.     *)
(*                                                                         *)
(* A JavaScript string is a sequence of one-character strings, so that     *)
(* trim, split, startsWith, /^\d+$/, parseInt, Number, JSON.parse, join    *)
(* and template interpolation are modelled by what they do to the text.    *)
(* A JavaScript value is a record [t, n, s]: t is the type tag ("undef",   *)
(* "num", "nan" for the number NaN, "str"), n the number, s the text.      *)
(***************************************************************************)
EXTENDS Integers, Sequences, FiniteSets, TLC

\* ------------------------------------------------------------------------
\* Bounds of the model
\* ------------------------------------------------------------------------
MaxRows == 2
MaxRules == 3
MaxRuns == 2

\* ------------------------------------------------------------------------
\* JavaScript values and strings
\* ------------------------------------------------------------------------
Undef == [t |-> "undef", n |-> 0, s |-> <<>>]
NaN == [t |-> "nan", n |-> 0, s |-> <<>>]
Num(k) == [t |-> "num", n |-> k, s |-> <<>>]
Str(cs) == [t |-> "str", n |-> 0, s |-> cs]

IsStr(v) == v.t = "str"

\* Truthiness, as in `if (id)`, `!value`, `row.id || idx`, `x || 1`.
Truthy(v) ==
  \/ v.t = "num" /\ v.n # 0
  \/ v.t = "str" /\ v.s # <<>>

\* The characters the model's strings are written in, in char-code order.
Alphabet ==
  << " ", "\"", ",", "0", "1", "2", "3", "4", "5", "6", "7", "8", "9",
     "C", "N", "R", "T", "W", "[", "]", "a", "b", "c", "r", "x" >>
Ord(c) == CHOOSE i \in 1..Len(Alphabet) : Alphabet[i] = c

DigitChars == << "0", "1", "2", "3", "4", "5", "6", "7", "8", "9" >>
IsDigit(c) == \E i \in 1..10 : DigitChars[i] = c
DigitVal(c) == (CHOOSE i \in 1..10 : DigitChars[i] = c) - 1

\* String(n) for a non-negative integer.
RECURSIVE StrOfNum(_)
StrOfNum(k) ==
  IF k < 10 THEN << DigitChars[k + 1] >>
  ELSE StrOfNum(k \div 10) \o << DigitChars[(k % 10) + 1] >>

\* String(v), also what `${v}` interpolates.
ToStr(v) ==
  CASE v.t = "str" -> v.s
    [] v.t = "num" -> StrOfNum(v.n)
    [] v.t = "nan" -> << "N", "a", "N" >>
    [] OTHER -> << "u", "n", "d", "e", "f", "i", "n", "e", "d" >>

RECURSIVE SkipWs(_, _)
SkipWs(s, i) == IF i <= Len(s) /\ s[i] = " " THEN SkipWs(s, i + 1) ELSE i

RECURSIVE SkipWsBack(_, _)
SkipWsBack(s, i) == IF i >= 1 /\ s[i] = " " THEN SkipWsBack(s, i - 1) ELSE i

\* String.prototype.trim
Trim(s) == SubSeq(s, SkipWs(s, 1), SkipWsBack(s, Len(s)))

\* s.trim().startsWith('[')
StartsWithBracket(s) == LET u == Trim(s) IN Len(u) > 0 /\ u[1] = "["

\* s.split(','): "" splits to one empty string.
RECURSIVE SplitFrom(_, _, _)
SplitFrom(s, i, cur) ==
  IF i > Len(s) THEN << cur >>
  ELSE IF s[i] = "," THEN << cur >> \o SplitFrom(s, i + 1, <<>>)
  ELSE SplitFrom(s, i + 1, Append(cur, s[i]))
Split(s) == SplitFrom(s, 1, <<>>)

\* /^\d+$/.test(s)
AllDigits(s) == Len(s) > 0 /\ \A i \in 1..Len(s) : IsDigit(s[i])

RECURSIVE DigitsEnd(_, _)
DigitsEnd(s, i) == IF i <= Len(s) /\ IsDigit(s[i]) THEN DigitsEnd(s, i + 1) ELSE i

RECURSIVE DigitsValue(_, _)
DigitsValue(s, acc) ==
  IF s = <<>> THEN acc ELSE DigitsValue(Tail(s), 10 * acc + DigitVal(Head(s)))

\* parseInt(s): leading white space skipped, then the longest run of digits.
ParseInt(s) ==
  LET i == SkipWs(s, 1)
      j == DigitsEnd(s, i)
  IN IF j = i THEN NaN ELSE Num(DigitsValue(SubSeq(s, i, j - 1), 0))

\* Number(v): the empty or blank string is 0, a run of digits its value,
\* any other text of the alphabet NaN.
NumberOf(v) ==
  CASE v.t = "num" -> v
    [] v.t = "nan" -> NaN
    [] v.t = "str" ->
         LET u == Trim(v.s)
         IN IF u = <<>> THEN Num(0)
            ELSE IF AllDigits(u) THEN Num(DigitsValue(u, 0))
            ELSE NaN
    [] OTHER -> NaN

\* list.join(sep)
RECURSIVE Join(_, _)
Join(list, sep) ==
  IF list = <<>> THEN <<>>
  ELSE IF Len(list) = 1 THEN list[1]
  ELSE list[1] \o sep \o Join(Tail(list), sep)
CommaSpace == << ",", " " >>

\* a < b for two strings (code-unit order).
RECURSIVE StrLess(_, _)
StrLess(a, b) ==
  IF b = <<>> THEN FALSE
  ELSE IF a = <<>> THEN TRUE
  ELSE IF Head(a) = Head(b) THEN StrLess(Tail(a), Tail(b))
  ELSE Ord(Head(a)) < Ord(Head(b))

\* ------------------------------------------------------------------------
\* JSON.parse, for texts of the alphabet: arrays of string literals and of
\* numbers, and those scalars alone.
\* ------------------------------------------------------------------------
JFail == [ok |-> FALSE, v |-> Undef, next |-> 0]

RECURSIVE QuoteEnd(_, _)
QuoteEnd(s, i) ==
  IF i > Len(s) THEN 0 ELSE IF s[i] = "\"" THEN i ELSE QuoteEnd(s, i + 1)

JScalar(s, i) ==
  IF i > Len(s) THEN JFail
  ELSE IF s[i] = "\"" THEN
    LET j == QuoteEnd(s, i + 1)
    IN IF j = 0 THEN JFail
       ELSE [ok |-> TRUE, v |-> Str(SubSeq(s, i + 1, j - 1)), next |-> j + 1]
  ELSE IF IsDigit(s[i]) THEN
    LET j == DigitsEnd(s, i)
    IN IF s[i] = "0" /\ j > i + 1 THEN JFail
       ELSE [ok |-> TRUE, v |-> Num(DigitsValue(SubSeq(s, i, j - 1), 0)), next |-> j]
  ELSE JFail

\* The elements after '[': [ok, xs, next].
RECURSIVE JElems(_, _, _)
JElems(s, i, acc) ==
  LET e == JScalar(s, i)
      k == SkipWs(s, e.next)
  IN IF ~e.ok \/ k > Len(s) THEN [ok |-> FALSE, xs |-> <<>>, next |-> 0]
     ELSE IF s[k] = "]" THEN [ok |-> TRUE, xs |-> Append(acc, e.v), next |-> k + 1]
     ELSE IF s[k] = "," THEN JElems(s, SkipWs(s, k + 1), Append(acc, e.v))
     ELSE [ok |-> FALSE, xs |-> <<>>, next |-> 0]

\* JSON.parse(s): [ok, isArr, xs]; ok = FALSE is the SyntaxError.
JSONParse(s) ==
  LET bad == [ok |-> FALSE, isArr |-> FALSE, xs |-> <<>>]
      i == SkipWs(s, 1)
  IN IF i > Len(s) THEN bad
     ELSE IF s[i] = "[" THEN
       LET j == SkipWs(s, i + 1)
           r == IF j <= Len(s) /\ s[j] = "]"
                THEN [ok |-> TRUE, xs |-> <<>>, next |-> j + 1]
                ELSE JElems(s, j, <<>>)
       IN IF r.ok /\ SkipWs(s, r.next) = Len(s) + 1
          THEN [ok |-> TRUE, isArr |-> TRUE, xs |-> r.xs]
          ELSE bad
     ELSE
       LET e == JScalar(s, i)
       IN IF e.ok /\ SkipWs(s, e.next) = Len(s) + 1
          THEN [ok |-> TRUE, isArr |-> FALSE, xs |-> << e.v >>]
          ELSE bad

\* ------------------------------------------------------------------------
\* Rows, rules and the result accumulator
\* ------------------------------------------------------------------------
\* A row maps column names to values; a column that is not a key of the row
\* reads as undefined.
Field(row, f) == IF f \in DOMAIN row THEN row[f] ELSE Undef

\* Identifiers of the code (entity, column names) are one-chunk strings.
Lit(name) == << name >>

requiredColumns ==
  [ clients |-> << "ClientID", "ClientName", "PriorityLevel", "RequestedTaskIDs",
                   "GroupTag", "AttributesJSON" >>,
    workers |-> << "WorkerID", "WorkerName", "Skills", "AvailableSlots",
                   "MaxLoadPerPhase", "WorkerGroup", "QualificationLevel" >>,
    tasks |-> << "TaskID", "TaskName", "Category", "Duration", "RequiredSkills",
                 "PreferredPhases", "MaxConcurrent" >> ]

\* A message is a template of the code with its interpolated texts.
Msg(tpl, args) == [tpl |-> tpl, args |-> args]

\* A key that is the positional index whatever the row holds.
RowKeyByIndex(row, idx) == StrOfNum(idx)

\* `row.id || idx` used as a property key of errors[entity].
RowKey(row, idx) ==
  IF Truthy(Field(row, "id")) THEN ToStr(Field(row, "id")) ELSE StrOfNum(idx)

EmptyErrors == [clients |-> <<>>, workers |-> <<>>, tasks |-> <<>>]

Put(f, k, v) == [x \in (DOMAIN f) \cup {k} |-> IF x = k THEN v ELSE f[x]]

\* errors[entity][key] = errors[entity][key] || {}
TouchRow(errs, entity, key) ==
  IF key \in DOMAIN errs[entity] THEN errs
  ELSE [errs EXCEPT ![entity] = Put(@, key, <<>>)]

\* errors[entity][key][field] = text, a field error being the sequence of
\* the messages concatenated into it.
SetErr(errs, entity, key, field, text) ==
  LET e == TouchRow(errs, entity, key)
  IN [e EXCEPT ![entity] = Put(@, key, Put(e[entity][key], field, text))]

HasErr(errs, entity, key, field) ==
  key \in DOMAIN errs[entity] /\ field \in DOMAIN errs[entity][key]

\* A finding that leaves no line in the summary.
PushNothing(acc, m) == acc

\* A summary that takes its newest line first (summary.unshift).
PushFront(acc, m) == [acc EXCEPT !.summary = << m >> \o @]

Push(acc, m) == [acc EXCEPT !.summary = Append(@, m)]
Flag(acc, entity, key, field, text) ==
  [acc EXCEPT !.errors = SetErr(@, entity, key, field, text)]

\* forEach over the indices i..n.
RECURSIVE ForEach(_, _, _, _)
ForEach(Op(_, _), acc, i, n) ==
  IF i > n THEN acc ELSE ForEach(Op, Op(acc, i), i + 1, n)

RECURSIVE MapSeq(_, _)
MapSeq(Op(_), xs) ==
  IF xs = <<>> THEN <<>> ELSE << Op(Head(xs)) >> \o MapSeq(Op, Tail(xs))

Includes(xs, v) == \E i \in 1..Len(xs) : xs[i] = v

TrimVal(cs) == Str(Trim(cs))
IntVal(cs) == ParseInt(Trim(cs))
RawVal(cs) == Str(cs)

\* The list of a list-valued field: JSON.parse when the trimmed text starts
\* with '[', else split on commas, each piece converted by conv ("trim":
\* s.trim(), "int": parseInt(s.trim()), "raw": unchanged).  ok = FALSE is the
\* exception of the try block (SyntaxError of JSON.parse, or the TypeError of
\* .split on a number or on undefined).
ListOf(value, conv) ==
  IF IsStr(value) /\ StartsWithBracket(value.s) THEN
    LET p == JSONParse(value.s) IN [ok |-> p.ok, xs |-> p.xs]
  ELSE IF IsStr(value) THEN
    [ok |-> TRUE,
     xs |-> CASE conv = "trim" -> MapSeq(TrimVal, Split(value.s))
              [] conv = "int" -> MapSeq(IntVal, Split(value.s))
              [] OTHER -> MapSeq(RawVal, Split(value.s))]
  ELSE [ok |-> FALSE, xs |-> <<>>]

\* ------------------------------------------------------------------------
\* The checkers of validateAllData.  Each forEach of the code is a ForEach
\* whose body is an operator of the loop's variables.
\* ------------------------------------------------------------------------
RowNumber(idx) == StrOfNum(idx + 1)

\* rows.forEach body of checkMissingColumns (lines 42-47)
MarkMissing(acc, entity, key, missing) ==
  ForEach(LAMBDA b, c : Flag(b, entity, key, missing[c],
                             << Msg("Required column missing", <<>>) >>),
          [acc EXCEPT !.errors = TouchRow(@, entity, key)],
          1, Len(missing))

\* A schema check that misses nothing.
NoMissingColumns(entity, firstRow) == <<>>

\* required.filter(col => !actual.includes(col))
MissingColumns(entity, firstRow) ==
  SelectSeq(requiredColumns[entity], LAMBDA col : col \notin DOMAIN firstRow)

ReportMissing(acc, entity, rows, missing) ==
  IF Len(missing) > 0
  THEN ForEach(LAMBDA a, i : MarkMissing(a, entity, RowKey(rows[i], i - 1), missing),
               Push(acc, Msg("%: Missing required columns: %",
                             << Lit(entity), Join(MapSeq(Lit, missing), CommaSpace) >>)),
               1, Len(rows))
  ELSE acc

checkMissingColumns(acc, entity, rows) ==
  IF Len(rows) = 0 THEN acc
  ELSE ReportMissing(acc, entity, rows, MissingColumns(entity, rows[1]))

\* The distinct truthy values of idField in first-occurrence order: the keys
\* of the Map `ids` (a Map compares keys by SameValueZero: type and value).
RECURSIVE IdKeys(_, _, _, _)
IdKeys(rows, idField, i, seen) ==
  IF i > Len(rows) THEN seen
  ELSE IF Truthy(Field(rows[i], idField)) /\ ~Includes(seen, Field(rows[i], idField))
  THEN IdKeys(rows, idField, i + 1, Append(seen, Field(rows[i], idField)))
  ELSE IdKeys(rows, idField, i + 1, seen)

\* ids.get(id): the 0-based indices of the rows holding id, ascending.
RECURSIVE IdIndices(_, _, _, _)
IdIndices(rows, idField, id, i) ==
  IF i > Len(rows) THEN <<>>
  ELSE (IF Field(rows[i], idField) = id THEN << i - 1 >> ELSE <<>>)
       \o IdIndices(rows, idField, id, i + 1)

\* An identity check that reports no group.
NoDuplicateGroup(acc, entity, rows, idField, id, indices) == acc

\* ids.forEach body (lines 60-68)
DuplicateGroup(acc, entity, rows, idField, id, indices) ==
  IF Len(indices) > 1
  THEN ForEach(LAMBDA b, j : Flag(b, entity, RowKey(rows[indices[j] + 1], indices[j]), idField,
                                  << Msg("Duplicate %: %", << Lit(idField), ToStr(id) >>) >>),
               Push(acc, Msg("%: Duplicate % '%' found in rows %",
                             << Lit(entity), Lit(idField), ToStr(id),
                                Join(MapSeq(RowNumber, indices), CommaSpace) >>)),
               1, Len(indices))
  ELSE acc

DuplicateGroups(acc, entity, rows, idField, ids) ==
  ForEach(LAMBDA a, g : DuplicateGroup(a, entity, rows, idField, ids[g],
                                       IdIndices(rows, idField, ids[g], 1)),
          acc, 1, Len(ids))

checkDuplicateIds(acc, entity, rows, idField) ==
  DuplicateGroups(acc, entity, rows, idField, IdKeys(rows, idField, 1, <<>>))

\* A filter that stops at the first offending item.
FirstNonNumeric(list) ==
  IF SelectSeq(list, LAMBDA item : ~AllDigits(ToStr(item))) = <<>>
  THEN <<>>
  ELSE << Head(SelectSeq(list, LAMBDA item : ~AllDigits(ToStr(item)))) >>

\* list.filter(item => !/^\d+$/.test(item))
NonNumericItems(list) == SelectSeq(list, LAMBDA item : ~AllDigits(ToStr(item)))

\* The numeric branch (lines 90-97); shown is invalidItems.join(', ').
ReportNonNumeric(acc, entity, field, idx, key, invalidItems, shown) ==
  IF Len(invalidItems) > 0
  THEN Push(Flag(acc, entity, key, field, << Msg("Non-numeric values: %", << shown >>) >>),
            Msg("%: Row % has non-numeric values in %: %",
                << Lit(entity), RowNumber(idx), Lit(field), shown >>))
  ELSE acc

\* rows.forEach body of checkMalformedLists (lines 72-98)
MalformedRow(acc, entity, field, numeric, idx, key, value, list) ==
  IF ~Truthy(value) THEN acc
  ELSE IF ~list.ok
  THEN Push(Flag(acc, entity, key, field, << Msg("Invalid list format", <<>>) >>),
            Msg("%: Row % has malformed list in %",
                << Lit(entity), RowNumber(idx), Lit(field) >>))
  ELSE IF numeric
  THEN ReportNonNumeric(acc, entity, field, idx, key, NonNumericItems(list.xs),
                        Join(MapSeq(ToStr, NonNumericItems(list.xs)), CommaSpace))
  ELSE acc

checkMalformedLists(acc, entity, rows, field, numeric) ==
  ForEach(LAMBDA a, i : MalformedRow(a, entity, field, numeric, i - 1, RowKey(rows[i], i - 1),
                                     Field(rows[i], field),
                                     ListOf(Field(rows[i], field), "trim")),
          acc, 1, Len(rows))

\* A range check whose interval is open: min and max are flagged too.
RangeRowOpen(acc, entity, field, min, max, idx, key, value, numValue) ==
  IF value = Undef \/ value = Str(<<>>) THEN acc
  ELSE IF numValue.t = "nan" \/ numValue.n <= min \/ numValue.n >= max
  THEN Push(Flag(acc, entity, key, field,
                 << Msg("Value must be between % and %", << StrOfNum(min), StrOfNum(max) >>) >>),
            Msg("%: Row % % value % is out of range [%, %]",
                << Lit(entity), RowNumber(idx), Lit(field), ToStr(value),
                   StrOfNum(min), StrOfNum(max) >>))
  ELSE acc

\* rows.forEach body of checkOutOfRange (lines 102-111)
RangeRow(acc, entity, field, min, max, idx, key, value, numValue) ==
  IF value = Undef \/ value = Str(<<>>) THEN acc
  ELSE IF numValue.t = "nan" \/ numValue.n < min \/ numValue.n > max
  THEN Push(Flag(acc, entity, key, field,
                 << Msg("Value must be between % and %", << StrOfNum(min), StrOfNum(max) >>) >>),
            Msg("%: Row % % value % is out of range [%, %]",
                << Lit(entity), RowNumber(idx), Lit(field), ToStr(value),
                   StrOfNum(min), StrOfNum(max) >>))
  ELSE acc

checkOutOfRange(acc, entity, rows, field, min, max) ==
  ForEach(LAMBDA a, i : RangeRow(a, entity, field, min, max, i - 1, RowKey(rows[i], i - 1),
                                 Field(rows[i], field), NumberOf(Field(rows[i], field))),
          acc, 1, Len(rows))

\* rows.forEach body of checkJSONFormat (lines 115-126)
JSONRow(acc, entity, field, idx, key, value) ==
  IF ~Truthy(value) THEN acc
  ELSE IF ~JSONParse(ToStr(value)).ok
  THEN Push(Flag(acc, entity, key, field, << Msg("Invalid JSON format", <<>>) >>),
            Msg("%: Row % has invalid JSON in %",
                << Lit(entity), RowNumber(idx), Lit(field) >>))
  ELSE acc

checkJSONFormat(acc, entity, rows, field) ==
  ForEach(LAMBDA a, i : JSONRow(a, entity, field, i - 1, RowKey(rows[i], i - 1),
                                Field(rows[i], field)),
          acc, 1, Len(rows))

\* ------------------------------------------------------------------------
\* Plain objects used as maps: Object.keys lists the integer-like keys in
\* ascending numeric order, then the other keys in insertion order.
\* ------------------------------------------------------------------------
IsIndexKey(k) == AllDigits(k) /\ (Len(k) = 1 \/ k[1] # "0")

RECURSIVE SortedIndexKeys(_)
SortedIndexKeys(ks) ==
  IF ks = <<>> THEN <<>>
  ELSE LET m == CHOOSE i \in 1..Len(ks) :
                  \A j \in 1..Len(ks) : DigitsValue(ks[i], 0) <= DigitsValue(ks[j], 0)
           rest == [j \in 1..(Len(ks) - 1) |-> IF j < m THEN ks[j] ELSE ks[j + 1]]
       IN << ks[m] >> \o SortedIndexKeys(rest)

NotIndexKey(k) == ~IsIndexKey(k)
ObjectKeys(inserted) ==
  SortedIndexKeys(SelectSeq(inserted, IsIndexKey)) \o SelectSeq(inserted, NotIndexKey)

\* a + b of JavaScript: text concatenation as soon as one side is a string.
JsAdd(a, b) ==
  IF IsStr(a) \/ IsStr(b) THEN Str(ToStr(a) \o ToStr(b))
  ELSE IF a.t = "num" /\ b.t = "num" THEN Num(a.n + b.n)
  ELSE NaN

\* a < b of JavaScript: two strings compare as text, otherwise both sides are
\* converted by Number and a NaN makes the comparison false.
JsLess(a, b) ==
  IF IsStr(a) /\ IsStr(b) THEN StrLess(a.s, b.s)
  ELSE LET x == NumberOf(a)
           y == NumberOf(b)
       IN x.t = "num" /\ y.t = "num" /\ x.n < y.n

\* x || 1
OrOne(v) == IF Truthy(v) THEN v ELSE Num(1)

\* ------------------------------------------------------------------------
\* checkCircularCoRuns
\* ------------------------------------------------------------------------
IsCoRun(r) == r.type = "coRun"

\* graph: [keys: the tasks in insertion order, adj: task -> neighbours].

AddNode(g, task) ==
  IF task \in DOMAIN g.adj THEN g
  ELSE [keys |-> Append(g.keys, task), adj |-> Put(g.adj, task, <<>>)]

AddEdge(g, task, otherTask) ==
  IF task # otherTask /\ ~Includes(g.adj[task], otherTask)
  THEN [g EXCEPT !.adj = Put(@, task, Append(g.adj[task], otherTask))]
  ELSE g

\* rule.tasks.forEach body (lines 134-141)
AddTask(g, ts, t) ==
  ForEach(LAMBDA g2, o : AddEdge(g2, ts[t], ts[o]), AddNode(g, ts[t]), 1, Len(ts))

AddRule(g, ts) == ForEach(LAMBDA g1, t : AddTask(g1, ts, t), g, 1, Len(ts))

BuildGraph(coRunRules) ==
  ForEach(LAMBDA g, r : AddRule(g, coRunRules[r].tasks), [keys |-> <<>>, adj |-> <<>>], 1, Len(coRunRules))

Neighbours(graph, task) == IF task \in DOMAIN graph.adj THEN graph.adj[task] ELSE <<>>

\* The course of the traversal, kept beside the two sets: the tasks entered
\* (visited.add, recStack.add) in order, the number of entered calls that are
\* open, and the largest such number.
NoLog == [entered |-> <<>>, level |-> 0, depth |-> 0]

Enter(log, task) ==
  [entered |-> Append(log.entered, task),
   level |-> log.level + 1,
   depth |-> IF log.level + 1 > log.depth THEN log.level + 1 ELSE log.depth]

\* recStack.delete(task); return false
Leave(log) == [log EXCEPT !.level = @ - 1]

\* hasCycle(task) with the sets it updates: [res, visited, recStack, log].
RECURSIVE hasCycle(_, _, _, _, _)
RECURSIVE hasCycleFrom(_, _, _, _, _, _)
\* A traversal that marks the task before it looks at the two sets.
hasCycleMarkFirst(graph, task, visited, recStack, log) ==
  IF task \in recStack
  THEN [res |-> TRUE, visited |-> visited, recStack |-> recStack, log |-> Enter(log, task)]
  ELSE IF task \in visited
  THEN [res |-> FALSE, visited |-> visited, recStack |-> recStack, log |-> Enter(log, task)]
  ELSE hasCycleFrom(graph, task, 1, visited \cup {task}, recStack \cup {task},
                    Enter(log, task))

hasCycle(graph, task, visited, recStack, log) ==
  IF task \in recStack
  THEN [res |-> TRUE, visited |-> visited, recStack |-> recStack, log |-> log]
  ELSE IF task \in visited
  THEN [res |-> FALSE, visited |-> visited, recStack |-> recStack, log |-> log]
  ELSE hasCycleFrom(graph, task, 1, visited \cup {task}, recStack \cup {task},
                    Enter(log, task))

\* The for loop over the neighbours of task, from the i-th on.
hasCycleFrom(graph, task, i, visited, recStack, log) ==
  IF i > Len(Neighbours(graph, task))
  THEN [res |-> FALSE, visited |-> visited, recStack |-> recStack \ {task},
        log |-> Leave(log)]
  ELSE LET r == hasCycle(graph, Neighbours(graph, task)[i], visited, recStack, log)
       IN IF r.res THEN r
          ELSE hasCycleFrom(graph, task, i + 1, r.visited, r.recStack, r.log)

\* The for loop over Object.keys(graph) from the i-th key on: the task
\* reported, or none, and the course of the traversal.
RECURSIVE FirstCycle(_, _, _, _, _, _)
FirstCycle(graph, keys, i, visited, recStack, log) ==
  IF i > Len(keys) THEN [found |-> FALSE, task |-> <<>>, log |-> log]
  ELSE IF keys[i] \in visited THEN FirstCycle(graph, keys, i + 1, visited, recStack, log)
  ELSE LET r == hasCycle(graph, keys[i], visited, recStack, log)
       IN IF r.res THEN [found |-> TRUE, task |-> keys[i], log |-> r.log]
          ELSE FirstCycle(graph, keys, i + 1, r.visited, r.recStack, r.log)

CycleSuggestion == Msg("Review co-run rules to eliminate circular dependencies", <<>>)

\* A report that names every task the traversal entered.
ReportCycleEach(acc, c) ==
  IF c.found
  THEN ForEach(LAMBDA a, j :
                 [a EXCEPT
                    !.summary = Append(@, Msg("Circular co-run dependency detected involving task %",
                                              << c.log.entered[j] >>)),
                    !.suggestions = Append(@, CycleSuggestion)],
               acc, 1, Len(c.log.entered))
  ELSE acc

ReportCycle(acc, c) ==
  IF c.found
  THEN [acc EXCEPT
          !.summary = Append(@, Msg("Circular co-run dependency detected involving task %",
                                    << c.task >>)),
          !.suggestions = Append(@, CycleSuggestion)]
  ELSE acc

\* A traversal that finds no cycle.
NoGraphCycle(graph) == [found |-> FALSE, task |-> <<>>, log |-> NoLog]

GraphCycle(graph) == FirstCycle(graph, ObjectKeys(graph.keys), 1, {}, {}, NoLog)

\* A rule pass that also reports the load limits among the rules.
checkCoRunsAndLimits(acc, ruleList) ==
  ReportCycle(IF \E i \in DOMAIN ruleList : ruleList[i].type = "loadLimit"
              THEN Push(acc, Msg("rules: load limit not checked", <<>>))
              ELSE acc,
              GraphCycle(BuildGraph(SelectSeq(ruleList, IsCoRun))))

checkCircularCoRuns(acc, ruleList) ==
  ReportCycle(acc, GraphCycle(BuildGraph(SelectSeq(ruleList, IsCoRun))))

\* ------------------------------------------------------------------------
\* checkPhaseSlotSaturation
\* ------------------------------------------------------------------------
\* phaseSlots: [keys: the phases in insertion order, val: phase -> counters]

SlotsAt(ps, k) ==
  IF k \in DOMAIN ps.val THEN ps.val[k] ELSE [total |-> Num(0), used |-> Num(0)]

\* slots.forEach body (lines 185-188); k is the property key of phase
AddTotal(ps, k, load) ==
  [keys |-> IF k \in DOMAIN ps.val THEN ps.keys ELSE Append(ps.keys, k),
   val |-> Put(ps.val, k, [SlotsAt(ps, k) EXCEPT !.total = JsAdd(@, load)])]

\* phases.forEach body (lines 202-206)
AddUsed(ps, k, duration) ==
  IF k \in DOMAIN ps.val
  THEN [ps EXCEPT !.val = Put(@, k, [SlotsAt(ps, k) EXCEPT !.used = JsAdd(@, duration)])]
  ELSE ps

\* workers.forEach body (lines 175-189)
AddWorker(ps, slots, load) ==
  IF slots.ok
  THEN ForEach(LAMBDA p, j : AddTotal(p, ToStr(slots.xs[j]), load), ps, 1, Len(slots.xs))
  ELSE ps

\* tasks.forEach body (lines 192-207)
AddTaskDemand(ps, phases, duration) ==
  IF phases.ok
  THEN ForEach(LAMBDA p, j : AddUsed(p, ToStr(phases.xs[j]), duration), ps, 1, Len(phases.xs))
  ELSE ps

WorkerTotals(workerRows) ==
  ForEach(LAMBDA ps, w : AddWorker(ps, ListOf(Field(workerRows[w], "AvailableSlots"), "int"),
                                   OrOne(Field(workerRows[w], "MaxLoadPerPhase"))),
          [keys |-> <<>>, val |-> <<>>], 1, Len(workerRows))

PhaseSlots(workerRows, taskRows) ==
  ForEach(LAMBDA ps, t : AddTaskDemand(ps, ListOf(Field(taskRows[t], "PreferredPhases"), "int"),
                                       OrOne(Field(taskRows[t], "Duration"))),
          WorkerTotals(workerRows), 1, Len(taskRows))

\* slots.used > slots.total
Oversaturated(slots) == JsLess(slots.total, slots.used)

\* Object.entries(phaseSlots).forEach body (lines 209-214)
ReportPhase(acc, phase, slots) ==
  IF Oversaturated(slots)
  THEN [acc EXCEPT
          !.summary = Append(@, Msg("Phase % is oversaturated: % slots needed, % available",
                                    << phase, ToStr(slots.used), ToStr(slots.total) >>)),
          !.suggestions = Append(@, Msg("Consider reducing task durations or adding more workers for phase %",
                                        << phase >>))]
  ELSE acc

ReportPhases(acc, ps, entries) ==
  ForEach(LAMBDA a, i : ReportPhase(a, entries[i], ps.val[entries[i]]), acc, 1, Len(entries))

SaturationOf(acc, ps) == ReportPhases(acc, ps, ObjectKeys(ps.keys))

checkPhaseSlotSaturation(acc, workerRows, taskRows) ==
  SaturationOf(acc, PhaseSlots(workerRows, taskRows))

\* ------------------------------------------------------------------------
\* checkOverloadedWorkers, checkMaxConcurrencyFeasibility
\* ------------------------------------------------------------------------
\* workers.forEach body (lines 218-233)
OverloadRow(acc, idx, key, maxLoad, availableSlots) ==
  IF ~availableSlots.ok THEN acc
  ELSE IF JsLess(Num(Len(availableSlots.xs)), OrOne(maxLoad))
  THEN Push(Flag(acc, "workers", key, "MaxLoadPerPhase",
                 << Msg("Max load (%) exceeds available slots (%)",
                        << ToStr(maxLoad), StrOfNum(Len(availableSlots.xs)) >>) >>),
            Msg("workers: Row % worker is overloaded", << RowNumber(idx) >>))
  ELSE acc

checkOverloadedWorkers(acc, workerRows) ==
  ForEach(LAMBDA a, i : OverloadRow(a, i - 1, RowKey(workerRows[i], i - 1),
                                    Field(workerRows[i], "MaxLoadPerPhase"),
                                    ListOf(Field(workerRows[i], "AvailableSlots"), "int")),
          acc, 1, Len(workerRows))

\* The filter callback of lines 250-260 for one worker's parsed Skills.
IsQualified(workerSkills, skills) ==
  workerSkills.ok /\ \E k \in 1..Len(skills) : Includes(workerSkills.xs, skills[k])

QualifiedWorkers(workerRows, skills) ==
  SelectSeq(workerRows,
            LAMBDA worker : IsQualified(ListOf(Field(worker, "Skills"), "trim"), skills))

\* The comparison and report of lines 262-266; qualified is
\* qualifiedWorkers.length.
ReportInfeasible(acc, idx, key, maxConcurrent, qualified) ==
  IF JsLess(Num(qualified), OrOne(maxConcurrent))
  THEN Push(Flag(acc, "tasks", key, "MaxConcurrent",
                 << Msg("Max concurrent (%) exceeds qualified workers (%)",
                        << ToStr(maxConcurrent), StrOfNum(qualified) >>) >>),
            Msg("tasks: Row % max concurrency not feasible", << RowNumber(idx) >>))
  ELSE acc

\* tasks.forEach body (lines 237-267)
ConcurrencyRow(acc, workerRows, idx, key, task, skills) ==
  IF ~Truthy(Field(task, "RequiredSkills")) \/ ~skills.ok THEN acc
  ELSE ReportInfeasible(acc, idx, key, Field(task, "MaxConcurrent"),
                        Len(QualifiedWorkers(workerRows, skills.xs)))

checkMaxConcurrencyFeasibility(acc, workerRows, taskRows) ==
  ForEach(LAMBDA a, i : ConcurrencyRow(a, workerRows, i - 1, RowKey(taskRows[i], i - 1),
                                       taskRows[i],
                                       ListOf(Field(taskRows[i], "RequiredSkills"), "trim")),
          acc, 1, Len(taskRows))

\* ------------------------------------------------------------------------
\* Cross-entity validations (inline in validateAllData)
\* ------------------------------------------------------------------------
\* A TypeError that no try block encloses ends validateAllData.
Throw(acc) == [acc EXCEPT !.thrown = TRUE]

\* The list of a field of the cross-entity passes: skipped when the value
\* is falsy, and left [] by the catch.
ListOrEmpty(value, list) == IF Truthy(value) /\ list.ok THEN list.xs ELSE <<>>
CrossList(value) == ListOrEmpty(value, ListOf(value, "raw"))

\* taskList.forEach body (lines 306-312)
ReferenceItem(acc, taskIds, idx, key, taskId) ==
  IF acc.thrown \/ ~Truthy(taskId) THEN acc
  ELSE IF ~IsStr(taskId) THEN Throw(acc)
  ELSE IF Str(Trim(taskId.s)) \notin taskIds
  THEN Push(Flag(acc, "clients", key, "RequestedTaskIDs",
                 << Msg("Unknown task ID: %", << taskId.s >>) >>),
            Msg("clients: Row % requests unknown task '%'", << RowNumber(idx), taskId.s >>))
  ELSE acc

\* clients.forEach body (lines 295-314)
ReferenceRow(acc, taskIds, idx, key, taskList) ==
  ForEach(LAMBDA b, j : ReferenceItem(b, taskIds, idx, key, taskList[j]), acc, 1, Len(taskList))

TaskIdSet(taskRows) == {Field(taskRows[t], "TaskID") : t \in 1..Len(taskRows)}

\* 1. RequestedTaskIDs in clients must exist in tasks
checkTaskReferences(acc, clientRows, taskRows) ==
  ForEach(LAMBDA a, i : ReferenceRow(a, TaskIdSet(taskRows), i - 1, RowKey(clientRows[i], i - 1),
                                     CrossList(Field(clientRows[i], "RequestedTaskIDs"))),
          acc, 1, Len(clientRows))

\* Workers without any skill.
NoWorkerSkills(workerRows, i) == <<>>

\* workers.flatMap(...): the skills of all workers, untrimmed.
RECURSIVE FlatWorkerSkills(_, _)
FlatWorkerSkills(workerRows, i) ==
  IF i > Len(workerRows) THEN <<>>
  ELSE CrossList(Field(workerRows[i], "Skills")) \o FlatWorkerSkills(workerRows, i + 1)

\* The field error of RequiredSkills so far, '' when there is none.
SkillErrorSoFar(errs, key) ==
  IF HasErr(errs, "tasks", key, "RequiredSkills") THEN errs.tasks[key]["RequiredSkills"]
  ELSE <<>>

\* skills.forEach body (lines 341-348)
CoverageItem(acc, allWorkerSkills, idx, key, skill) ==
  IF acc.thrown \/ ~Truthy(skill) THEN acc
  ELSE IF ~IsStr(skill) THEN Throw(acc)
  ELSE IF Str(Trim(skill.s)) \notin allWorkerSkills
  THEN Push(Flag(acc, "tasks", key, "RequiredSkills",
                 Append(SkillErrorSoFar(acc.errors, key),
                        Msg(" No worker with skill: %", << skill.s >>))),
            Msg("tasks: Row % requires skill '%' not found in any worker",
                << RowNumber(idx), skill.s >>))
  ELSE acc

\* tasks.forEach body (lines 330-350)
CoverageRow(acc, allWorkerSkills, idx, key, skills) ==
  ForEach(LAMBDA b, j : CoverageItem(b, allWorkerSkills, idx, key, skills[j]),
          acc, 1, Len(skills))

\* .map((skill) => skill.trim()) into the Set; a skill that is no string
\* has no trim.
CoverageOf(acc, flat, taskRows) ==
  IF \E k \in 1..Len(flat) : ~IsStr(flat[k]) THEN Throw(acc)
  ELSE ForEach(LAMBDA a, i : CoverageRow(a, {Str(Trim(flat[k].s)) : k \in 1..Len(flat)},
                                         i - 1, RowKey(taskRows[i], i - 1),
                                         CrossList(Field(taskRows[i], "RequiredSkills"))),
               acc, 1, Len(taskRows))

\* 2. Skill coverage
checkSkillCoverage(acc, workerRows, taskRows) ==
  CoverageOf(acc, FlatWorkerSkills(workerRows, 1), taskRows)

\* ------------------------------------------------------------------------
\* validateAllData: the fresh accumulator and the sections of its body
\* ------------------------------------------------------------------------
FreshResult ==
  [errors |-> EmptyErrors, summary |-> <<>>, suggestions |-> <<>>, thrown |-> FALSE]

CoreClients(acc, clientRows) ==
  checkJSONFormat(
    checkMalformedLists(
      checkOutOfRange(
        checkDuplicateIds(
          checkMissingColumns(acc, "clients", clientRows),
          "clients", clientRows, "ClientID"),
        "clients", clientRows, "PriorityLevel", 1, 5),
      "clients", clientRows, "RequestedTaskIDs", FALSE),
    "clients", clientRows, "AttributesJSON")

CoreWorkers(acc, workerRows) ==
  checkOverloadedWorkers(
    checkOutOfRange(
      checkMalformedLists(
        checkMalformedLists(
          checkDuplicateIds(
            checkMissingColumns(acc, "workers", workerRows),
            "workers", workerRows, "WorkerID"),
          "workers", workerRows, "Skills", FALSE),
        "workers", workerRows, "AvailableSlots", TRUE),
      "workers", workerRows, "MaxLoadPerPhase", 1, 10),
    workerRows)

CoreTasks(acc, workerRows, taskRows) ==
  checkMaxConcurrencyFeasibility(
    checkOutOfRange(
      checkOutOfRange(
        checkMalformedLists(
          checkMalformedLists(
            checkDuplicateIds(
              checkMissingColumns(acc, "tasks", taskRows),
              "tasks", taskRows, "TaskID"),
            "tasks", taskRows, "RequiredSkills", FALSE),
          "tasks", taskRows, "PreferredPhases", TRUE),
        "tasks", taskRows, "Duration", 1, 100),
      "tasks", taskRows, "MaxConcurrent", 1, 10),
    workerRows, taskRows)

\* What a caller gets: the result object, or the exception.
Returned(acc) ==
  [status |-> "returned", errors |-> acc.errors, summary |-> acc.summary,
   suggestions |-> acc.suggestions]
Threw == [status |-> "threw", errors |-> EmptyErrors, summary |-> <<>>, suggestions |-> <<>>]
NoResult == [status |-> "none", errors |-> EmptyErrors, summary |-> <<>>, suggestions |-> <<>>]

\* validateAllData as one function of its arguments.
validateAllData(clientRows, workerRows, taskRows, ruleList) ==
  LET core == CoreTasks(CoreWorkers(CoreClients(FreshResult, clientRows), workerRows),
                        workerRows, taskRows)
      refs == checkTaskReferences(core, clientRows, taskRows)
      cover == checkSkillCoverage(refs, workerRows, taskRows)
  IN IF refs.thrown \/ cover.thrown THEN Threw
     ELSE Returned(checkPhaseSlotSaturation(checkCircularCoRuns(cover, ruleList),
                                            workerRows, taskRows))

\* ------------------------------------------------------------------------
\* The inputs the page hands to validateAllData: rows as the file parser
\* yields them (CSV: every value a string; XLSX: numbers too), with the `id`
\* the page adds (addRowIds), and the rules of the rule builder.
\* ------------------------------------------------------------------------
Quote(s) == << "\"" >> \o s \o << "\"" >>
JsonArr(texts) == << "[" >> \o Join(texts, << "," >>) \o << "]" >>
Csv(texts) == Join(texts, << "," >>)

\* The cell texts the rows are written with.
txt ==
  [ a |-> << "a" >>, b |-> << "b" >>, c |-> << "c" >>, x |-> << "x" >>,
    n1 |-> << "1" >>, n2 |-> << "2" >>, n3 |-> << "3" >>, n7 |-> << "7" >>,
    T1 |-> << "T", "1" >>, T2 |-> << "T", "2" >>, T3 |-> << "T", "3" >>,
    T4 |-> << "T", "4" >>, T8 |-> << "T", "8" >>, T9 |-> << "T", "9" >>,
    C1 |-> << "C", "1" >>, C2 |-> << "C", "2" >>,
    W1 |-> << "W", "1" >>, W2 |-> << "W", "2" >>, r9 |-> << "r", "9" >> ]
Pad(s) == << " " >> \o s

\* A row from a base row with some columns overridden; an override by Undef
\* removes the column from the row.
Override(base, over) ==
  LET keys == {k \in (DOMAIN base) \cup (DOMAIN over) :
                 IF k \in DOMAIN over THEN over[k] # Undef ELSE TRUE}
  IN [k \in keys |-> IF k \in DOMAIN over THEN over[k] ELSE base[k]]

RECURSIVE SeqsUpTo(_, _)
SeqsUpTo(S, n) ==
  IF n = 0 THEN { <<>> }
  ELSE LET shorter == SeqsUpTo(S, n - 1)
       IN shorter \cup {Append(q, x) : q \in {p \in shorter : Len(p) = n - 1}, x \in S}

\* id and identity value: as uploaded (id = identity), without id (the
\* engine called on parsed rows), after the identity cell was edited or
\* for an empty identity (id is a random text), numeric identities of XLSX.
IdPairs(idField, v1, v2) ==
  { [id |-> Str(v1)] @@ (idField :> Str(v1)),
    [id |-> Str(v2)] @@ (idField :> Str(v2)),
    [id |-> Undef] @@ (idField :> Str(v1)),
    [id |-> Str(txt.r9)] @@ (idField :> Str(v1)),
    [id |-> Str(txt.r9)] @@ (idField :> Str(<<>>)),
    [id |-> Undef] @@ (idField :> Undef),
    [id |-> Undef] @@ (idField :> Num(0)),
    [id |-> Num(1)] @@ (idField :> Num(1)),
    [id |-> Str(txt.n1)] @@ (idField :> Str(txt.n1)) }

\* The rows of one theme: the base row as uploaded and the base row with
\* some columns overridden.
Theme(base, variants) ==
  {base} \cup {Override(base, [id |-> Undef] @@ v) : v \in variants}

BaseClient ==
  [ id |-> Str(txt.C1), ClientID |-> Str(txt.C1), ClientName |-> Str(txt.a),
    PriorityLevel |-> Num(1), RequestedTaskIDs |-> Str(txt.T1), GroupTag |-> Str(txt.a),
    AttributesJSON |-> Str(JsonArr(<< txt.n1 >>)) ]

\* The client rows by theme: identity, PriorityLevel, RequestedTaskIDs, the
\* optional columns.
ClientThemes ==
  { {Override(BaseClient, p) : p \in IdPairs("ClientID", txt.C1, txt.C2)},
    Theme(BaseClient,
          { [PriorityLevel |-> Num(0)], [PriorityLevel |-> Num(5)], [PriorityLevel |-> Num(6)],
            [PriorityLevel |-> Str(txt.n3)], [PriorityLevel |-> Str(txt.x)],
            [PriorityLevel |-> Str(<<>>)], [PriorityLevel |-> Undef] }),
    Theme(BaseClient,
          { [RequestedTaskIDs |-> Str(Csv(<< txt.T1, Pad(txt.T9) >>))],
            [RequestedTaskIDs |-> Str(JsonArr(<< Quote(txt.T1), Quote(txt.T9) >>))],
            [RequestedTaskIDs |-> Str(Csv(<< txt.T8, txt.T9 >>))],
            [RequestedTaskIDs |-> Str(JsonArr(<< txt.n1, txt.n2 >>))],
            [RequestedTaskIDs |-> Str(<< "[" >> \o txt.T1)],
            [RequestedTaskIDs |-> Num(5)],
            [RequestedTaskIDs |-> Undef] }),
    Theme(BaseClient,
          { [AttributesJSON |-> Str(txt.a)],
            [GroupTag |-> Undef, AttributesJSON |-> Undef] }) }

BaseWorker ==
  [ id |-> Str(txt.W1), WorkerID |-> Str(txt.W1), WorkerName |-> Str(txt.a), Skills |-> Str(txt.a),
    AvailableSlots |-> Str(txt.n1), MaxLoadPerPhase |-> Num(1), WorkerGroup |-> Str(txt.a),
    QualificationLevel |-> Num(1) ]

\* The worker rows by theme: identity, Skills, AvailableSlots, slots against
\* load, MaxLoadPerPhase.
WorkerThemes ==
  { {Override(BaseWorker, p) : p \in IdPairs("WorkerID", txt.W1, txt.W2)},
    Theme(BaseWorker,
          { [Skills |-> Str(Csv(<< txt.a, Pad(txt.b) >>))],
            [Skills |-> Str(JsonArr(<< Quote(txt.a), Quote(txt.b) >>))],
            [Skills |-> Str(JsonArr(<< txt.n1 >>))],
            [Skills |-> Str(<< "[" >> \o txt.a)],
            [Skills |-> Undef] }),
    Theme(BaseWorker,
          { [AvailableSlots |-> Str(Csv(<< txt.n1, txt.n2 >>))],
            [AvailableSlots |-> Str(JsonArr(<< txt.n1, txt.n2 >>))],
            [AvailableSlots |-> Str(Csv(<< txt.n1, txt.n2, txt.x >>))],
            [AvailableSlots |-> Num(1)],
            [AvailableSlots |-> Str(<< "[" >> \o txt.n1)],
            [MaxLoadPerPhase |-> Undef] }),
    Theme(BaseWorker,
          { [AvailableSlots |-> Str(Csv(<< txt.n1, txt.n2 >>)), MaxLoadPerPhase |-> Num(3)],
            [AvailableSlots |-> Str(JsonArr(<< txt.n1, txt.n2 >>)), MaxLoadPerPhase |-> Num(2)],
            [AvailableSlots |-> Str(<< "[", "]" >>), MaxLoadPerPhase |-> Num(0)],
            [AvailableSlots |-> Str(txt.x), MaxLoadPerPhase |-> Num(2)] }),
    Theme(BaseWorker,
          { [MaxLoadPerPhase |-> Num(0)], [MaxLoadPerPhase |-> Num(10)],
            [MaxLoadPerPhase |-> Num(11)],
            [MaxLoadPerPhase |-> Str(txt.n3)], [WorkerGroup |-> Undef] }) }

BaseTask ==
  [ id |-> Str(txt.T1), TaskID |-> Str(txt.T1), TaskName |-> Str(txt.a), Category |-> Str(txt.a),
    Duration |-> Num(1), RequiredSkills |-> Str(txt.a), PreferredPhases |-> Str(txt.n1),
    MaxConcurrent |-> Num(1) ]

\* The task rows by theme: identity, Duration, MaxConcurrent, RequiredSkills,
\* PreferredPhases.
TaskThemes ==
  { {Override(BaseTask, p) : p \in IdPairs("TaskID", txt.T1, txt.T2)},
    Theme(BaseTask,
          { [Duration |-> Num(0)], [Duration |-> Num(100)], [Duration |-> Num(101)],
            [Duration |-> Str(txt.n7)], [Duration |-> Undef] }),
    Theme(BaseTask,
          { [MaxConcurrent |-> Num(0)], [MaxConcurrent |-> Num(0), RequiredSkills |-> Str(txt.c)],
            [MaxConcurrent |-> Num(2)],
            [MaxConcurrent |-> Num(10)], [MaxConcurrent |-> Num(11)],
            [MaxConcurrent |-> Undef] }),
    Theme(BaseTask,
          { [RequiredSkills |-> Str(Csv(<< txt.a, Pad(txt.c) >>))],
            [RequiredSkills |-> Str(JsonArr(<< Quote(txt.a), Quote(txt.c) >>))],
            [RequiredSkills |-> Str(Csv(<< txt.c, txt.x >>))],
            [RequiredSkills |-> Str(JsonArr(<< txt.n1 >>))],
            [RequiredSkills |-> Str(<< "[" >> \o txt.a)],
            [RequiredSkills |-> Undef] }),
    Theme(BaseTask,
          { [PreferredPhases |-> Str(txt.n2)],
            [PreferredPhases |-> Str(Csv(<< txt.n1, txt.x >>))],
            [PreferredPhases |-> Str(Csv(<< txt.x, Pad(txt.n1), Pad(txt.b) >>))],
            [PreferredPhases |-> Str(JsonArr(<< txt.n1, txt.n2 >>))],
            [PreferredPhases |-> Undef],
            [Category |-> Undef] }) }

\* Workers and tasks of the capacity checks: loads and durations as numbers
\* and as the strings of a CSV file, phases in both encodings.
CapWorkers ==
  { Override(BaseWorker, [AvailableSlots |-> Str(txt.n1), MaxLoadPerPhase |-> Num(2)]),
    Override(BaseWorker, [AvailableSlots |-> Str(Csv(<< txt.n1, txt.n2 >>)),
                          MaxLoadPerPhase |-> Num(3)]),
    Override(BaseWorker, [AvailableSlots |-> Str(txt.n1), MaxLoadPerPhase |-> Str(txt.n3)]) }

CapTasks ==
  { Override(BaseTask, [PreferredPhases |-> Str(txt.n1), Duration |-> Num(3)]),
    Override(BaseTask, [PreferredPhases |-> Str(JsonArr(<< txt.n1, txt.n2 >>)),
                        Duration |-> Num(4)]),
    Override(BaseTask, [PreferredPhases |-> Str(txt.n3), Duration |-> Num(3)]),
    Override(BaseTask, [PreferredPhases |-> Str(txt.n1), Duration |-> Str(txt.n7)]) }

CoRun(ts) == [type |-> "coRun", tasks |-> ts]
RuleSet ==
  { CoRun(<< txt.T1, txt.T2 >>), CoRun(<< txt.T2, txt.T3 >>), CoRun(<< txt.T3, txt.T1 >>),
    CoRun(<< txt.T3, txt.T4 >>), CoRun(<< txt.T1 >>),
    [type |-> "loadLimit", group |-> txt.a, maxSlotsPerPhase |-> 2],
    [type |-> "phaseWindow", task |-> txt.T1, allowedPhases |-> << 1, 2 >>] }

\* ------------------------------------------------------------------------
\* The state machine: one invocation of validateAllData after the other on
\* the same arguments, each stepping through the sections of its body.
\* ------------------------------------------------------------------------
VARIABLES
  clients, workers, tasks, rules,   \* the arguments
  pc,                               \* where the running invocation stands
  errors, summary, suggestions,     \* its accumulators
  result,                           \* what the last invocation gave its caller
  prev,                             \* what the invocation before it gave
  runs,                             \* invocations completed
  builderRules,                     \* RuleBuilder: its own `rules` list
  filtered,                         \* HomePage: the rows of the active search
  appliedCorrections                \* AICorrectionPanel: the keys applied

args == << clients, workers, tasks, rules >>
\* The state of the page's components that validateAllData never sees.
panels == << builderRules, filtered, appliedCorrections >>
vars == << clients, workers, tasks, rules, pc, errors, summary, suggestions,
           result, prev, runs, panels >>

Acc == [errors |-> errors, summary |-> summary, suggestions |-> suggestions,
        thrown |-> FALSE]

InitArgs ==
  \/ /\ \E theme \in ClientThemes : clients \in SeqsUpTo(theme, MaxRows)
     /\ workers = <<>>
     /\ tasks = << BaseTask >>
     /\ rules = <<>>
  \/ /\ clients = <<>>
     /\ \E theme \in WorkerThemes : workers \in SeqsUpTo(theme, MaxRows)
     /\ tasks = << BaseTask >>
     /\ rules = <<>>
  \/ /\ clients = <<>>
     /\ workers = << BaseWorker >>
     /\ \E theme \in TaskThemes : tasks \in SeqsUpTo(theme, MaxRows)
     /\ rules = <<>>
  \/ /\ clients = <<>>
     /\ workers \in SeqsUpTo(CapWorkers, MaxRows)
     /\ tasks \in SeqsUpTo(CapTasks, MaxRows)
     /\ rules = <<>>
  \/ /\ clients = << BaseClient >>
     /\ workers = << BaseWorker >>
     /\ tasks = << BaseTask >>
     /\ rules \in SeqsUpTo(RuleSet, MaxRules)

Init ==
  /\ InitArgs
  /\ pc = "idle"
  /\ errors = EmptyErrors
  /\ summary = <<>>
  /\ suggestions = <<>>
  /\ result = NoResult
  /\ prev = NoResult
  /\ runs = 0
  /\ builderRules = <<>>
  /\ filtered = [on |-> FALSE, clients |-> <<>>, workers |-> <<>>, tasks |-> <<>>]
  /\ appliedCorrections = {}

\* Accumulators that outlive the invocation.
KeptAcc == Acc

\* The accumulators a new invocation starts from (lines 27-33).
StartAcc == FreshResult

SetAcc(a) ==
  /\ errors' = a.errors
  /\ summary' = a.summary
  /\ suggestions' = a.suggestions

\* The invocation ends: its caller has the result object or the exception.
Finish(r) ==
  /\ pc' = "idle"
  /\ prev' = result
  /\ result' = r
  /\ runs' = runs + 1

\* validateAllData is called.
Invoke ==
  /\ pc = "idle"
  /\ runs < MaxRuns
  /\ SetAcc(StartAcc)
  /\ pc' = "clients"
  /\ UNCHANGED << args, panels, result, prev, runs >>

StepCoreClients ==
  /\ pc = "clients"
  /\ SetAcc(CoreClients(Acc, clients))
  /\ pc' = "workers"
  /\ UNCHANGED << args, panels, result, prev, runs >>

\* A worker pass that writes the default load into the rows it is given
\* (worker.MaxLoadPerPhase = worker.MaxLoadPerPhase || 1).
StepCoreWorkersInPlace ==
  /\ pc = "workers"
  /\ SetAcc(CoreWorkers(Acc, workers))
  /\ pc' = "tasks"
  /\ workers' = [i \in DOMAIN workers |->
                   Override(workers[i],
                            [MaxLoadPerPhase |-> OrOne(Field(workers[i], "MaxLoadPerPhase"))])]
  /\ UNCHANGED << clients, tasks, rules, panels, result, prev, runs >>

StepCoreWorkers ==
  /\ pc = "workers"
  /\ SetAcc(CoreWorkers(Acc, workers))
  /\ pc' = "tasks"
  /\ UNCHANGED << args, panels, result, prev, runs >>

StepCoreTasks ==
  /\ pc = "tasks"
  /\ SetAcc(CoreTasks(Acc, workers, tasks))
  /\ pc' = "references"
  /\ UNCHANGED << args, panels, result, prev, runs >>

\* A cross-entity pass ends: the invocation goes on, or its TypeError
\* reaches the caller.
Proceed(a, nextPc) ==
  /\ SetAcc(a)
  /\ IF a.thrown THEN Finish(Threw)
     ELSE pc' = nextPc /\ UNCHANGED << result, prev, runs >>

StepTaskReferences ==
  /\ pc = "references"
  /\ Proceed(checkTaskReferences(Acc, clients, tasks), "coverage")
  /\ UNCHANGED << args, panels >>

StepSkillCoverage ==
  /\ pc = "coverage"
  /\ Proceed(checkSkillCoverage(Acc, workers, tasks), "coRuns")
  /\ UNCHANGED << args, panels >>

StepCircularCoRuns ==
  /\ pc = "coRuns"
  /\ SetAcc(checkCircularCoRuns(Acc, rules))
  /\ pc' = "saturation"
  /\ UNCHANGED << args, panels, result, prev, runs >>

StepPhaseSlotSaturation ==
  /\ pc = "saturation"
  /\ SetAcc(checkPhaseSlotSaturation(Acc, workers, tasks))
  /\ pc' = "return"
  /\ UNCHANGED << args, panels, result, prev, runs >>

Return ==
  /\ pc = "return"
  /\ Finish(Returned(Acc))
  /\ UNCHANGED << args, panels, errors, summary, suggestions >>

Next ==
  \/ Invoke
  \/ StepCoreClients
  \/ StepCoreWorkers
  \/ StepCoreTasks
  \/ StepTaskReferences
  \/ StepSkillCoverage
  \/ StepCircularCoRuns
  \/ StepPhaseSlotSaturation
  \/ Return

Spec == Init /\ [][Next]_vars

\* ------------------------------------------------------------------------
\* The page (HomePage): its clients, workers, tasks and rules state, the
\* handlers that change it and the effect that validates it. The variables
\* are those of the engine: the four collections are the page's state,
\* result is what the effect's call of validateAllData gave (the object
\* handed to setValidation, or the exception that ended the effect and with
\* it the page), prev the validation it replaced, pc tells whether the
\* effect is due ("render"), is inside validateAllData or has run ("idle"),
\* and runs counts the validations made.
\* ------------------------------------------------------------------------
MaxChanges == 3

\* rows.map(row => ({ ...row, id: row[idField] || Math.random()... }))
addRowIds(rows, idField) ==
  [i \in DOMAIN rows |->
     Override(rows[i], [id |-> IF Truthy(Field(rows[i], idField))
                               THEN Field(rows[i], idField)
                               ELSE Str(txt.r9 \o StrOfNum(i))])]

\* What the file parser hands over (rows without id), by file type.
Files ==
  [ clients |-> { << Override(BaseClient, [id |-> Undef]) >>,
                  << Override(BaseClient, [id |-> Undef,
                        RequestedTaskIDs |-> Str(JsonArr(<< txt.n1, txt.n2 >>))]) >>,
                  << Override(BaseClient, [id |-> Undef,
                        RequestedTaskIDs |-> Str(Csv(<< txt.T8, txt.T9 >>))]) >> },
    workers |-> { << Override(BaseWorker, [id |-> Undef]) >>,
                  << Override(BaseWorker, [id |-> Undef, WorkerID |-> Str(<<>>),
                        AvailableSlots |-> Str(Csv(<< txt.n1, txt.n2, txt.x >>))]) >> },
    tasks |-> { << Override(BaseTask, [id |-> Undef]) >>,
                << Override(BaseTask, [id |-> Undef]),
                   Override(BaseTask, [id |-> Undef, TaskID |-> Str(txt.T2)]) >> } ]

\* The cells a grid edit rewrites, by entity.
Edits ==
  [ clients |-> { [RequestedTaskIDs |-> Str(txt.T8)],
                  [RequestedTaskIDs |-> Str(JsonArr(<< txt.n1, txt.n2 >>))] },
    workers |-> { [MaxLoadPerPhase |-> Num(0)] },
    tasks |-> { [Duration |-> Num(0)], [RequiredSkills |-> Str(txt.b)] } ]

PageRows == [clients |-> clients, workers |-> workers, tasks |-> tasks]

\* setClients / setWorkers / setTasks
SetRows(fileType, rows) ==
  /\ clients' = IF fileType = "clients" THEN rows ELSE clients
  /\ workers' = IF fileType = "workers" THEN rows ELSE workers
  /\ tasks' = IF fileType = "tasks" THEN rows ELSE tasks

\* A handler of the mounted page called a state setter: the page renders
\* again and its effect is due.
Changed ==
  /\ pc = "idle"
  /\ result.status = "returned"
  /\ runs <= MaxChanges
  /\ pc' = "render"
  /\ UNCHANGED << errors, summary, suggestions, result, prev, runs >>

handleDataParsed ==
  /\ Changed
  /\ \E fileType \in DOMAIN Files : \E data \in Files[fileType] :
       SetRows(fileType,
               addRowIds(data, [clients |-> "ClientID", workers |-> "WorkerID",
                                tasks |-> "TaskID"][fileType]))
  /\ UNCHANGED << rules, panels >>

\* toLowerCase on the letters of the cell texts
toLowerCase(s) ==
  [i \in DOMAIN s |-> IF s[i] \in {"T", "C", "W"} THEN [T |-> "t", C |-> "c", W |-> "w"][s[i]]
                      ELSE s[i]]

\* rows.filter(row => Object.values(row).some(val =>
\*   String(val).toLowerCase().includes(query.toLowerCase())))
filterRows(rows, query) ==
  SelectSeq(rows,
            LAMBDA row : \E k \in DOMAIN row : \E at \in 1..(Len(ToStr(row[k])) + 1 - Len(query)) :
                           SubSeq(toLowerCase(ToStr(row[k])), at, at + Len(query) - 1)
                             = toLowerCase(query))

\* The search sets `filtered` to the matching rows of the three collections
\* (the string match of the handler; the search service is taken to answer
\* with the same rows).  `filtered` is no dependency of the effect.
handleSearch ==
  /\ pc = "idle"
  /\ result.status = "returned"
  /\ \E query \in {txt.T2, txt.a} :
       filtered' = [on |-> TRUE, clients |-> filterRows(clients, query),
                    workers |-> filterRows(workers, query),
                    tasks |-> filterRows(tasks, query)]
  /\ UNCHANGED << args, pc, errors, summary, suggestions, result, prev, runs,
                  builderRules, appliedCorrections >>

\* setFiltered(null)
handleClearSearch ==
  /\ pc = "idle"
  /\ result.status = "returned"
  /\ filtered.on
  /\ filtered' = [on |-> FALSE, clients |-> <<>>, workers |-> <<>>, tasks |-> <<>>]
  /\ UNCHANGED << args, pc, errors, summary, suggestions, result, prev, runs,
                  builderRules, appliedCorrections >>

\* showClients / showWorkers / showTasks: the rows a grid is given
showRows == IF filtered.on THEN filtered ELSE PageRows

\* DataGridEditable: rows.map(row => row.id === updatedRow.id ? {...row, ...updatedRow} : row)
\* on the rows the grid shows, handed to setClients / setWorkers / setTasks.
processRowUpdate ==
  /\ Changed
  /\ \E entity \in DOMAIN Edits : \E i \in DOMAIN showRows[entity] : \E edit \in Edits[entity] :
       SetRows(entity,
               [j \in DOMAIN showRows[entity] |->
                  IF Field(showRows[entity][j], "id") = Field(showRows[entity][i], "id")
                  THEN Override(showRows[entity][j], Override(showRows[entity][i], edit))
                  ELSE showRows[entity][j]])
  /\ UNCHANGED << rules, panels >>

\* The suggestion lists of the correction service (AICorrectionResponse).
Corrections ==
  { << [entity |-> "tasks", row |-> 1, column |-> "Duration", suggestedFix |-> Str(txt.n1)],
       [entity |-> "tasks", row |-> 2, column |-> "Duration", suggestedFix |-> Str(txt.n2)] >>,
    << [entity |-> "tasks", row |-> 1, column |-> "MaxConcurrent", suggestedFix |-> Str(txt.n1)],
       [entity |-> "workers", row |-> 1, column |-> "MaxLoadPerPhase",
        suggestedFix |-> Str(txt.n1)] >> }

correctionKey(suggestion) == << suggestion.entity, suggestion.row, suggestion.column >>

\* AICorrectionPanel, applyCorrection: it reads the collections and the
\* applied keys of the render it was created in (the state variables), hands
\* a copy of that collection with one marked row to the setter, and adds its
\* key through the updater function.  done.rows is what the setters were
\* last handed, done.applied the applied keys after the updates.  The row
\* gets `${column}_fixed` and `${column}_suggestion`.
applyCorrection(done, suggestion) ==
  IF \/ correctionKey(suggestion) \in appliedCorrections
     \/ suggestion.row \notin DOMAIN PageRows[suggestion.entity]
  THEN done
  ELSE [rows |-> [done.rows EXCEPT
                    ![suggestion.entity] =
                       [PageRows[suggestion.entity] EXCEPT
                          ![suggestion.row] =
                             Override(@, ((suggestion.column \o "_fixed") :> Str(<< "true" >>))
                                         @@ ((suggestion.column \o "_suggestion")
                                               :> suggestion.suggestedFix))]],
        applied |-> done.applied \cup {correctionKey(suggestion)}]

\* corrections.suggestions.forEach(suggestion => applyCorrection(suggestion))
AppliedAll(suggestions_) ==
  ForEach(LAMBDA done, j : applyCorrection(done, suggestions_[j]),
          [rows |-> PageRows, applied |-> appliedCorrections], 1, Len(suggestions_))

\* The panel is rendered when the validation has summary lines; a click
\* that applies something calls a setter of the page.
Corrected(done) ==
  /\ Changed
  /\ result.summary # <<>>
  /\ done.applied # appliedCorrections
  /\ clients' = done.rows.clients
  /\ workers' = done.rows.workers
  /\ tasks' = done.rows.tasks
  /\ appliedCorrections' = done.applied
  /\ UNCHANGED << rules, builderRules, filtered >>

\* The Apply button of one suggestion.
applySuggestion ==
  \E list \in Corrections : \E j \in DOMAIN list : Corrected(AppliedAll(<< list[j] >>))

applyAllCorrections == \E list \in Corrections : Corrected(AppliedAll(list))

\* HomePage, handleAddRule (onAddRule of the rule recommendations):
\* setRules(prev => [...prev, rule])
handleAddRule ==
  /\ Changed
  /\ Len(rules) < MaxRules
  /\ \E rule \in RuleSet : rules' = Append(rules, rule)
  /\ UNCHANGED << clients, workers, tasks, panels >>

\* HomePage, handleAddRuleFromNL: setRules(prev => [...prev, data.rule])
handleAddRuleFromNL ==
  /\ Changed
  /\ Len(rules) < MaxRules
  /\ \E rule \in {r \in RuleSet : r.type = "phaseWindow"} : rules' = Append(rules, rule)
  /\ UNCHANGED << clients, workers, tasks, panels >>

\* RuleBuilder keeps a list of its own (`rules`, line 48) and hands it to
\* setRules.  handleAddRule: updatedRules = [...rules, newRule];
\* setRules(updatedRules); onRulesChange(updatedRules)
addBuilderRule ==
  /\ Changed
  /\ Len(builderRules) < MaxRules
  /\ \E newRule \in {r \in RuleSet : r.type = "loadLimit" \/ r = CoRun(<< txt.T1, txt.T2 >>)} :
       /\ builderRules' = Append(builderRules, newRule)
       /\ rules' = Append(builderRules, newRule)
  /\ UNCHANGED << clients, workers, tasks, filtered, appliedCorrections >>

\* RuleBuilder, handleDeleteRule: rules.filter((_, i) => i !== idx) of its
\* own list, to setRules and onRulesChange
handleDeleteRule ==
  /\ Changed
  /\ \E idx \in DOMAIN builderRules :
       /\ builderRules' = [i \in 1..(Len(builderRules) - 1) |->
                             IF i < idx THEN builderRules[i] ELSE builderRules[i + 1]]
       /\ rules' = builderRules'
  /\ UNCHANGED << clients, workers, tasks, filtered, appliedCorrections >>

\* React.useEffect(() => setValidation(validateAllData({...})), [clients, workers, tasks, rules]):
\* the effect calls validateAllData, whose steps are those of the engine;
\* Finish is setValidation or the exception.
useEffect ==
  /\ pc = "render"
  /\ SetAcc(StartAcc)
  /\ pc' = "clients"
  /\ UNCHANGED << args, panels, result, prev, runs >>

PageInit ==
  /\ clients = <<>>
  /\ workers = <<>>
  /\ tasks = <<>>
  /\ rules = <<>>
  /\ pc = "render"
  /\ errors = EmptyErrors
  /\ summary = <<>>
  /\ suggestions = <<>>
  /\ result = NoResult
  /\ prev = NoResult
  /\ runs = 0
  /\ builderRules = <<>>
  /\ filtered = [on |-> FALSE, clients |-> <<>>, workers |-> <<>>, tasks |-> <<>>]
  /\ appliedCorrections = {}

\* The handlers, and the steps of the effect, which JavaScript runs to its
\* end before any handler.
PageNext ==
  \/ handleDataParsed
  \/ handleSearch
  \/ handleClearSearch
  \/ processRowUpdate
  \/ applySuggestion
  \/ applyAllCorrections
  \/ handleAddRule
  \/ handleAddRuleFromNL
  \/ addBuilderRule
  \/ handleDeleteRule
  \/ useEffect
  \/ StepCoreClients
  \/ StepCoreWorkers
  \/ StepCoreTasks
  \/ StepTaskReferences
  \/ StepSkillCoverage
  \/ StepCircularCoRuns
  \/ StepPhaseSlotSaturation
  \/ Return

\* The effect moves on from where it stands (due, at a section of
\* validateAllData) to another point. Every step of the effect is such a
\* step, no handler is, and a step of the effect is possible at every point
\* but "idle".
EffectStep ==
  /\ pc # "idle"
  /\ pc' \in { "render", "clients", "workers", "tasks", "references", "coverage", "coRuns",
               "saturation", "return", "idle" } \ {pc}

\* React runs a due effect after the render that made it due, and the call
\* in it runs to its end.
PageSpec == PageInit /\ [][PageNext]_vars /\ WF_pc(EffectStep)

\* ------------------------------------------------------------------------
\* Properties of validateAllData
\* ------------------------------------------------------------------------
Entities == {"clients", "workers", "tasks"}

RowsOf(entity) ==
  CASE entity = "clients" -> clients
    [] entity = "workers" -> workers
    [] OTHER -> tasks

IdentityField(entity) ==
  CASE entity = "clients" -> "ClientID"
    [] entity = "workers" -> "WorkerID"
    [] OTHER -> "TaskID"

\* An invocation has ended and its caller holds a result object.
HasReturned == pc = "idle" /\ result.status = "returned"

InSummary(m) == \E i \in DOMAIN result.summary : result.summary[i] = m
InSuggestions(m) == \E i \in DOMAIN result.suggestions : result.suggestions[i] = m
TimesInSummary(m) == Cardinality({i \in DOMAIN result.summary : result.summary[i] = m})

\* The key `row.id || idx` of the i-th row, written out.
KeyOfRow(row, i) ==
  IF Truthy(Field(row, "id")) THEN ToStr(Field(row, "id")) ELSE StrOfNum(i - 1)

\* C1: validateAllData never throws: every invocation ends with a result
\* object, whatever the rows hold (JSON arrays of any element type, malformed
\* lists, malformed JSON).
C1_NeverThrows == result.status # "threw"

CoRunRules == SelectSeq(rules, IsCoRun)
TaskSet(rule) == {rule.tasks[i] : i \in DOMAIN rule.tasks}
CoRunTasks == UNION {TaskSet(CoRunRules[i]) : i \in DOMAIN CoRunRules}

HasCycleMessage ==
  \E i \in DOMAIN result.summary :
    result.summary[i].tpl = "Circular co-run dependency detected involving task %"

\* C2: two co-run rules over disjoint task sets do not trigger cycle
\* detection: no circular co-run message in the summary, no cycle hint in
\* the suggestions.
C2_DisjointRulesNoCycle ==
  (/\ HasReturned
   /\ Len(CoRunRules) = 2
   /\ Cardinality(TaskSet(CoRunRules[1])) = 2
   /\ Cardinality(TaskSet(CoRunRules[2])) = 2
   /\ TaskSet(CoRunRules[1]) \cap TaskSet(CoRunRules[2]) = {})
  => ~HasCycleMessage /\ ~InSuggestions(CycleSuggestion)

\* The pairs of distinct tasks that share a co-run rule.
CoRunLinks ==
  {e \in CoRunTasks \X CoRunTasks :
     e[1] # e[2] /\ \E i \in DOMAIN CoRunRules : {e[1], e[2]} \subseteq TaskSet(CoRunRules[i])}

RECURSIVE ReachedBy(_, _)
ReachedBy(links, from) ==
  IF {e[2] : e \in {l \in links : l[1] \in from}} \subseteq from THEN from
  ELSE ReachedBy(links, from \cup {e[2] : e \in {l \in links : l[1] \in from}})

\* The co-run rules close a loop: some link joins two tasks that are also
\* joined by a path of other links.
ClosesLoop ==
  \E e \in CoRunLinks :
    e[2] \in ReachedBy(CoRunLinks \ {e, << e[2], e[1] >>}, {e[1]})

\* C3: co-run rules whose tasks close a loop trigger cycle detection: the
\* summary has a circular co-run message naming a task of those rules, and
\* the suggestions have the cycle remediation hint.
C3_LoopDetected ==
  (HasReturned /\ ClosesLoop)
  => /\ \E t \in CoRunTasks :
          InSummary(Msg("Circular co-run dependency detected involving task %", << t >>))
     /\ InSuggestions(CycleSuggestion)

C3_Witness == HasReturned /\ ClosesLoop /\ HasCycleMessage /\ Len(CoRunRules) = 3

\* C4 as amended: every key of errors[entity] is the `id` of a row of that
\* collection when the row has a truthy id (the page sets it to the identity
\* value at upload and keeps it when the identity cell is edited), and the
\* positional index of a row without one.
C4_KeyedByRowId ==
  HasReturned
  => \A entity \in Entities : \A k \in DOMAIN result.errors[entity] :
       \E i \in DOMAIN RowsOf(entity) : k = KeyOfRow(RowsOf(entity)[i], i)

C4_Witness ==
  /\ HasReturned
  /\ \E i \in DOMAIN clients :
       /\ Field(clients[i], "id") = Str(txt.r9)
       /\ Field(clients[i], "ClientID") = Str(txt.C1)
       /\ txt.r9 \in DOMAIN result.errors.clients

\* An identity value is absent when the column is missing or empty.
IsAbsent(v) == v = Undef \/ v = Str(<<>>)

\* C4 as stated: every key of errors[entity] is the identity value of a row,
\* and a positional index only for a row whose identity value is absent.
C4_KeyedByIdentity ==
  HasReturned
  => \A entity \in Entities : \A k \in DOMAIN result.errors[entity] :
       \E i \in DOMAIN RowsOf(entity) :
         IF IsAbsent(Field(RowsOf(entity)[i], IdentityField(entity)))
         THEN k = StrOfNum(i - 1)
         ELSE k = ToStr(Field(RowsOf(entity)[i], IdentityField(entity)))

\* The numbers of a phase list given as digits, comma-delimited or as a JSON
\* array; a load or duration given as a number, 1 when absent.
PhaseList(value) == ListOf(value, "int")
IsPhaseList(value) ==
  /\ IsStr(value)
  /\ PhaseList(value).ok
  /\ \A j \in DOMAIN PhaseList(value).xs : PhaseList(value).xs[j].t = "num"
Phases(value) == {PhaseList(value).xs[j].n : j \in DOMAIN PhaseList(value).xs}
IsAmount(v) == v = Undef \/ (v.t = "num" /\ v.n > 0)
Amount(v) == IF v = Undef THEN 1 ELSE v.n

\* Workers and tasks whose phase lists, loads and durations are well formed.
WellFormedCapacity ==
  /\ \A i \in DOMAIN workers :
       /\ IsPhaseList(Field(workers[i], "AvailableSlots"))
       /\ IsAmount(Field(workers[i], "MaxLoadPerPhase"))
  /\ \A i \in DOMAIN tasks :
       /\ IsPhaseList(Field(tasks[i], "PreferredPhases"))
       /\ IsAmount(Field(tasks[i], "Duration"))

RECURSIVE SumAmounts(_, _, _, _)
SumAmounts(rows, listField, amountField, p) ==
  IF rows = <<>> THEN 0
  ELSE (IF p \in Phases(Field(Head(rows), listField))
        THEN Amount(Field(Head(rows), amountField)) ELSE 0)
       + SumAmounts(Tail(rows), listField, amountField, p)

TotalOf(p) == SumAmounts(workers, "AvailableSlots", "MaxLoadPerPhase", p)
UsedOf(p) == SumAmounts(tasks, "PreferredPhases", "Duration", p)

AllPhases ==
  UNION ({Phases(Field(workers[i], "AvailableSlots")) : i \in DOMAIN workers}
         \cup {Phases(Field(tasks[i], "PreferredPhases")) : i \in DOMAIN tasks})

SaturationLines(p) ==
  {i \in DOMAIN result.summary :
     /\ result.summary[i].tpl = "Phase % is oversaturated: % slots needed, % available"
     /\ result.summary[i].args[1] = StrOfNum(p)}

\* C5: for every phase, total is the sum of MaxLoadPerPhase (default 1) over
\* the workers whose AvailableSlots contain it and used the sum of Duration
\* (default 1) over the tasks whose PreferredPhases contain it; the phase is
\* reported, with one summary line naming the phase and both counts and one
\* suggestion, exactly when used > total.
C5_Saturation ==
  (HasReturned /\ WellFormedCapacity)
  => \A p \in AllPhases :
       IF UsedOf(p) > TotalOf(p)
       THEN /\ Cardinality(SaturationLines(p)) = 1
            /\ InSummary(Msg("Phase % is oversaturated: % slots needed, % available",
                             << StrOfNum(p), StrOfNum(UsedOf(p)), StrOfNum(TotalOf(p)) >>))
            /\ InSuggestions(Msg("Consider reducing task durations or adding more workers for phase %",
                                 << StrOfNum(p) >>))
       ELSE SaturationLines(p) = {}

\* The required columns that are no key of the first row.
AbsentColumns(entity) ==
  SelectSeq(requiredColumns[entity], LAMBDA col : col \notin DOMAIN RowsOf(entity)[1])

SchemaLine(entity) ==
  Msg("%: Missing required columns: %",
      << Lit(entity), Join(MapSeq(Lit, AbsentColumns(entity)), CommaSpace) >>)

SchemaLinesOf(entity) ==
  {i \in DOMAIN result.summary :
     /\ result.summary[i].tpl = "%: Missing required columns: %"
     /\ result.summary[i].args[1] = Lit(entity)}

\* C6: for every collection with at least one row, if a required column is
\* absent from the first row's keys, the summary has one entry naming the
\* entity and all missing columns and every row of the collection has a
\* field error for each missing column; an empty collection yields no schema
\* message and no error.
C6_SchemaCheck ==
  HasReturned
  => \A entity \in Entities :
       IF RowsOf(entity) = <<>>
       THEN SchemaLinesOf(entity) = {} /\ result.errors[entity] = <<>>
       ELSE IF AbsentColumns(entity) = <<>>
       THEN SchemaLinesOf(entity) = {}
       ELSE /\ Cardinality(SchemaLinesOf(entity)) = 1
            /\ TimesInSummary(SchemaLine(entity)) = 1
            /\ \A i \in DOMAIN RowsOf(entity) :
                 \A c \in DOMAIN AbsentColumns(entity) :
                   HasErr(result.errors, entity, KeyOfRow(RowsOf(entity)[i], i),
                          AbsentColumns(entity)[c])

C6_Witness ==
  /\ HasReturned
  /\ Len(tasks) = 2
  /\ Len(AbsentColumns("tasks")) = 1
  /\ InSummary(SchemaLine("tasks"))
  /\ KeyOfRow(tasks[1], 1) # KeyOfRow(tasks[2], 2)

\* The 1-based numbers of the rows whose identity field holds v, ascending.
RowsSharing(entity, v) ==
  SelectSeq([i \in DOMAIN RowsOf(entity) |-> i],
            LAMBDA i : Field(RowsOf(entity)[i], IdentityField(entity)) = v)

DuplicateLine(entity, v) ==
  Msg("%: Duplicate % '%' found in rows %",
      << Lit(entity), Lit(IdentityField(entity)), ToStr(v),
         Join(MapSeq(StrOfNum, RowsSharing(entity, v)), CommaSpace) >>)

DuplicateLinesOf(entity, v) ==
  {i \in DOMAIN result.summary :
     /\ result.summary[i].tpl = "%: Duplicate % '%' found in rows %"
     /\ result.summary[i].args[1] = Lit(entity)
     /\ result.summary[i].args[3] = ToStr(v)}

HasDuplicateError(entity, key) ==
  /\ HasErr(result.errors, entity, key, IdentityField(entity))
  /\ \E j \in DOMAIN result.errors[entity][key][IdentityField(entity)] :
       result.errors[entity][key][IdentityField(entity)][j].tpl = "Duplicate %: %"

\* The identity value v of more than one row is reported once, with the
\* numbers of all rows sharing it, and each of these rows is marked.
ReportedOnce(entity, v) ==
  Len(RowsSharing(entity, v)) > 1
  => /\ Cardinality(DuplicateLinesOf(entity, v)) = 1
     /\ TimesInSummary(DuplicateLine(entity, v)) = 1
     /\ \A j \in DOMAIN RowsSharing(entity, v) :
          HasDuplicateError(entity,
                            KeyOfRow(RowsOf(entity)[RowsSharing(entity, v)[j]],
                                     RowsSharing(entity, v)[j]))

IdentityValues(entity) ==
  {Field(RowsOf(entity)[i], IdentityField(entity)) : i \in DOMAIN RowsOf(entity)}

\* C7 as amended: for every truthy identity value (a non-empty text, a number
\* other than 0) that occurs in more than one row of its collection, the
\* summary has exactly one grouped message for that value, listing the
\* 1-based numbers of all rows sharing it, and each of these rows has a
\* duplicate-value field error on the identity field.
C7_TruthyDuplicatesGrouped ==
  HasReturned
  => \A entity \in Entities : \A v \in IdentityValues(entity) :
       Truthy(v) => ReportedOnce(entity, v)

C7_Witness ==
  /\ HasReturned
  /\ Len(workers) = 2
  /\ Field(workers[1], "WorkerID") = Str(txt.W1)
  /\ Field(workers[2], "WorkerID") = Str(txt.W1)
  /\ KeyOfRow(workers[1], 1) # KeyOfRow(workers[2], 2)
  /\ InSummary(DuplicateLine("workers", Str(txt.W1)))

\* C7 as stated: for every identity value that occurs in more than one row,
\* the number 0 of a spreadsheet included.
C7_DuplicatesGrouped ==
  HasReturned
  => \A entity \in Entities : \A v \in IdentityValues(entity) :
       ~IsAbsent(v) => ReportedOnce(entity, v)

\* The list fields of an entity, and a comma-delimited text rewritten as the
\* JSON array of its trimmed pieces: "a, b" becomes ["a","b"].
ListFields(entity) ==
  CASE entity = "clients" -> {"RequestedTaskIDs"}
    [] entity = "workers" -> {"Skills", "AvailableSlots"}
    [] OTHER -> {"RequiredSkills", "PreferredPhases"}

IsDelimited(v) == IsStr(v) /\ v.s # <<>> /\ ~StartsWithBracket(v.s)
QuotedPiece(cs) == Quote(Trim(cs))
AsJsonArray(v) == Str(JsonArr(MapSeq(QuotedPiece, Split(v.s))))

Reencoded(rows, i, f) == [rows EXCEPT ![i] = [@ EXCEPT ![f] = AsJsonArray(@)]]

\* What validateAllData gives when field f of the i-th row of entity is
\* written as a JSON array.
ResultReencoded(entity, i, f) ==
  CASE entity = "clients" -> validateAllData(Reencoded(clients, i, f), workers, tasks, rules)
    [] entity = "workers" -> validateAllData(clients, Reencoded(workers, i, f), tasks, rules)
    [] OTHER -> validateAllData(clients, workers, Reencoded(tasks, i, f), rules)

SameFindings(r1, r2) ==
  r1.status = r2.status /\ r1.errors = r2.errors /\ r1.summary = r2.summary

\* C8: the comma-delimited form and the JSON-array form of a list field are
\* normalized to the same sequence in every checker, so validateAllData
\* gives the same errors and summary for two inputs that differ only in the
\* encoding of one list field.
C8_ListRoundTrip ==
  (pc = "idle" /\ runs = 1)
  => \A entity \in Entities : \A i \in DOMAIN RowsOf(entity) :
       \A f \in ListFields(entity) :
         IsDelimited(Field(RowsOf(entity)[i], f))
         => SameFindings(result, ResultReencoded(entity, i, f))

\* C9: two invocations on identical clients, workers, tasks and rules give
\* structurally identical results, and a result is the function of the
\* arguments of its own invocation whatever ran before.
C9_Idempotent ==
  (pc = "idle" /\ runs >= 1)
  => /\ result = validateAllData(clients, workers, tasks, rules)
     /\ runs >= 2 => result = prev

C9_Witness ==
  /\ HasReturned
  /\ runs = 2
  /\ prev.status = "returned"
  /\ result.summary # <<>>
  /\ result.suggestions # <<>>
  /\ result.errors # EmptyErrors

\* Summary line s reports the finding that message m stored for `field` of
\* the row under `key` in errors[entity] stands for.
SameRow(entity, key, number) ==
  \E i \in DOMAIN RowsOf(entity) :
    KeyOfRow(RowsOf(entity)[i], i) = key /\ StrOfNum(i) = number

Corresponds(entity, key, field, m, s) ==
  CASE m.tpl = "Required column missing" ->
         /\ s.tpl = "%: Missing required columns: %"
         /\ s.args[1] = Lit(entity)
    [] m.tpl = "Duplicate %: %" ->
         /\ s.tpl = "%: Duplicate % '%' found in rows %"
         /\ s.args[1] = Lit(entity) /\ s.args[2] = Lit(field) /\ s.args[3] = m.args[2]
    [] m.tpl = "Invalid list format" ->
         /\ s.tpl = "%: Row % has malformed list in %"
         /\ s.args[1] = Lit(entity) /\ s.args[3] = Lit(field)
         /\ SameRow(entity, key, s.args[2])
    [] m.tpl = "Non-numeric values: %" ->
         /\ s.tpl = "%: Row % has non-numeric values in %: %"
         /\ s.args[1] = Lit(entity) /\ s.args[3] = Lit(field) /\ s.args[4] = m.args[1]
         /\ SameRow(entity, key, s.args[2])
    [] m.tpl = "Value must be between % and %" ->
         /\ s.tpl = "%: Row % % value % is out of range [%, %]"
         /\ s.args[1] = Lit(entity) /\ s.args[3] = Lit(field)
         /\ s.args[5] = m.args[1] /\ s.args[6] = m.args[2]
         /\ SameRow(entity, key, s.args[2])
    [] m.tpl = "Invalid JSON format" ->
         /\ s.tpl = "%: Row % has invalid JSON in %"
         /\ s.args[1] = Lit(entity) /\ s.args[3] = Lit(field)
         /\ SameRow(entity, key, s.args[2])
    [] m.tpl = "Max load (%) exceeds available slots (%)" ->
         /\ s.tpl = "workers: Row % worker is overloaded"
         /\ entity = "workers" /\ SameRow(entity, key, s.args[1])
    [] m.tpl = "Max concurrent (%) exceeds qualified workers (%)" ->
         /\ s.tpl = "tasks: Row % max concurrency not feasible"
         /\ entity = "tasks" /\ SameRow(entity, key, s.args[1])
    [] m.tpl = "Unknown task ID: %" ->
         /\ s.tpl = "clients: Row % requests unknown task '%'"
         /\ entity = "clients" /\ s.args[2] = m.args[1]
         /\ SameRow(entity, key, s.args[1])
    [] m.tpl = " No worker with skill: %" ->
         /\ s.tpl = "tasks: Row % requires skill '%' not found in any worker"
         /\ entity = "tasks" /\ s.args[2] = m.args[1]
         /\ SameRow(entity, key, s.args[1])
    [] OTHER -> FALSE

\* C10: in every result returned, each field error stored in
\* errors[entity][rowId] corresponds to at least one message of the summary;
\* errors is non-empty only if summary is non-empty.
C10_ErrorsHaveSummary ==
  HasReturned
  => /\ \A entity \in Entities : \A key \in DOMAIN result.errors[entity] :
          \A field \in DOMAIN result.errors[entity][key] :
            \A j \in DOMAIN result.errors[entity][key][field] :
              \E i \in DOMAIN result.summary :
                Corresponds(entity, key, field, result.errors[entity][key][field][j],
                            result.summary[i])
     /\ result.errors # EmptyErrors => result.summary # <<>>

C10_Witness ==
  /\ HasReturned
  /\ \E key \in DOMAIN result.errors.workers :
       /\ HasErr(result.errors, "workers", key, "MaxLoadPerPhase")
       /\ HasErr(result.errors, "workers", key, "AvailableSlots")
  /\ Len(result.summary) >= 2

\* The range-checked fields with their intervals.
RangeChecks ==
  { << "clients", "PriorityLevel", 1, 5 >>, << "workers", "MaxLoadPerPhase", 1, 10 >>,
    << "tasks", "Duration", 1, 100 >>, << "tasks", "MaxConcurrent", 1, 10 >> }

\* A present value whose numeric coercion is not a number or lies outside
\* [min, max].
OutOfRange(v, min, max) ==
  /\ v # Undef /\ v # Str(<<>>)
  /\ \/ NumberOf(v).t = "nan"
     \/ NumberOf(v).n < min
     \/ NumberOf(v).n > max

RangeLinesOf(entity, i, field) ==
  {j \in DOMAIN result.summary :
     /\ result.summary[j].tpl = "%: Row % % value % is out of range [%, %]"
     /\ result.summary[j].args[1] = Lit(entity)
     /\ result.summary[j].args[2] = StrOfNum(i)
     /\ result.summary[j].args[3] = Lit(field)}

RangeLine(entity, i, field, v, min, max) ==
  Msg("%: Row % % value % is out of range [%, %]",
      << Lit(entity), StrOfNum(i), Lit(field), ToStr(v), StrOfNum(min), StrOfNum(max) >>)

SlotsParse(worker) == ListOf(Field(worker, "AvailableSlots"), "int").ok
SlotCount(worker) == Len(ListOf(Field(worker, "AvailableSlots"), "int").xs)

OverloadLinesOf(i) ==
  {j \in DOMAIN result.summary :
     result.summary[j] = Msg("workers: Row % worker is overloaded", << StrOfNum(i) >>)}

HasOverloadError(key) ==
  /\ HasErr(result.errors, "workers", key, "MaxLoadPerPhase")
  /\ \E j \in DOMAIN result.errors.workers[key]["MaxLoadPerPhase"] :
       result.errors.workers[key]["MaxLoadPerPhase"][j].tpl
         = "Max load (%) exceeds available slots (%)"

\* The workers flagged as overloaded are those with fewer slots than `load`.
OverloadFlagged(i, load) ==
  IF SlotsParse(workers[i]) /\ load.t = "num" /\ SlotCount(workers[i]) < load.n
  THEN Cardinality(OverloadLinesOf(i)) = 1 /\ HasOverloadError(KeyOfRow(workers[i], i))
  ELSE OverloadLinesOf(i) = {}

\* C12: a worker whose AvailableSlots parses to n slots is flagged as
\* overloaded (field error on MaxLoadPerPhase plus one summary line) exactly
\* when n is less than its MaxLoadPerPhase, 1 when that is absent.
C12_Overload ==
  HasReturned
  => \A i \in DOMAIN workers :
       OverloadFlagged(i, IF IsAbsent(Field(workers[i], "MaxLoadPerPhase"))
                          THEN Num(1)
                          ELSE NumberOf(Field(workers[i], "MaxLoadPerPhase")))

\* The skills a list field names: the non-empty trimmed texts of its parsed
\* elements.
SkillsNamed(value) ==
  {Trim(CrossList(value)[j].s) :
     j \in {k \in DOMAIN CrossList(value) :
              IsStr(CrossList(value)[k]) /\ Trim(CrossList(value)[k].s) # <<>>}}

WorkerSkillsListed == UNION {SkillsNamed(Field(workers[w], "Skills")) : w \in DOMAIN workers}

\* The summary lines that name skill for the i-th task.
CoverageLinesOf(i, skill) ==
  {j \in DOMAIN result.summary :
     /\ result.summary[j].tpl = "tasks: Row % requires skill '%' not found in any worker"
     /\ result.summary[j].args[1] = StrOfNum(i)
     /\ Trim(result.summary[j].args[2]) = skill}

NumericLists == { << "workers", "AvailableSlots" >>, << "tasks", "PreferredPhases" >> }

\* The elements of the parsed list of a value, as texts; none when the value
\* is empty or does not parse.
Tokens(value) ==
  IF Truthy(value) /\ ListOf(value, "trim").ok
  THEN [j \in DOMAIN ListOf(value, "trim").xs |-> ToStr(ListOf(value, "trim").xs[j])]
  ELSE <<>>

Offending(value) == SelectSeq(Tokens(value), LAMBDA t : ~AllDigits(t))

NonNumericLinesOf(entity, i, field) ==
  {j \in DOMAIN result.summary :
     /\ result.summary[j].tpl = "%: Row % has non-numeric values in %: %"
     /\ result.summary[j].args[1] = Lit(entity)
     /\ result.summary[j].args[2] = StrOfNum(i)
     /\ result.summary[j].args[3] = Lit(field)}

HasNonNumericError(entity, key, field) ==
  /\ HasErr(result.errors, entity, key, field)
  /\ \E j \in DOMAIN result.errors[entity][key][field] :
       result.errors[entity][key][field][j].tpl = "Non-numeric values: %"

\* C14: a row whose numeric list (AvailableSlots, PreferredPhases) has an
\* element that is not all digits is flagged, all its offending tokens being
\* named together in one message; a list of digit strings is not flagged.
C14_NumericLists ==
  HasReturned
  => \A c \in NumericLists : \A i \in DOMAIN RowsOf(c[1]) :
       IF Offending(Field(RowsOf(c[1])[i], c[2])) # <<>>
       THEN /\ Cardinality(NonNumericLinesOf(c[1], i, c[2])) = 1
            /\ InSummary(Msg("%: Row % has non-numeric values in %: %",
                             << Lit(c[1]), StrOfNum(i), Lit(c[2]),
                                Join(Offending(Field(RowsOf(c[1])[i], c[2])), CommaSpace) >>))
            /\ HasNonNumericError(c[1], KeyOfRow(RowsOf(c[1])[i], i), c[2])
       ELSE NonNumericLinesOf(c[1], i, c[2]) = {}

\* "1,2,x" is flagged naming x, and "x, 1, b" naming x and b together.
C14_Witness ==
  /\ HasReturned
  /\ \/ /\ Len(workers) = 2
        /\ Offending(Field(workers[1], "AvailableSlots")) = << txt.x >>
        /\ Offending(Field(workers[2], "AvailableSlots")) = <<>>
        /\ NonNumericLinesOf("workers", 1, "AvailableSlots") # {}
     \/ /\ Len(tasks) = 1
        /\ Offending(Field(tasks[1], "PreferredPhases")) = << txt.x, txt.b >>
        /\ NonNumericLinesOf("tasks", 1, "PreferredPhases") # {}

\* The course of the traversal of the graph of the co-run rules.
Traversal == GraphCycle(BuildGraph(SelectSeq(rules, IsCoRun))).log

TraversalDone == pc \in {"saturation", "return"}

IsMessage(m) == DOMAIN m = {"tpl", "args"} /\ m.args \in Seq(Seq(STRING))

\* What a result is made of: field errors, summary lines and suggestions
\* that are messages.
OwnValuesOnly(r) ==
  /\ DOMAIN r = {"status", "errors", "summary", "suggestions"}
  /\ \A i \in DOMAIN r.summary : IsMessage(r.summary[i])
  /\ \A i \in DOMAIN r.suggestions : IsMessage(r.suggestions[i])
  /\ \A entity \in DOMAIN r.errors : \A key \in DOMAIN r.errors[entity] :
       \A field \in DOMAIN r.errors[entity][key] :
         \A i \in DOMAIN r.errors[entity][key][field] :
           IsMessage(r.errors[entity][key][field][i])

\* C16: no step of validateAllData changes the clients, workers, tasks or
\* rules it was given, nor any row or rule in them, and the result it gives
\* back is made of its own messages only.
C16_InputsUntouched == [][args' = args /\ OwnValuesOnly(result')]_vars

\* Worker rows have been validated twice, each time with field errors and
\* summary lines in the result.
C16_Witness ==
  /\ HasReturned
  /\ runs = MaxRuns
  /\ Len(workers) = MaxRows
  /\ result.summary # <<>>
  /\ DOMAIN result.errors["workers"] # {}

\* The page shows the validation of its current state.
ShowsCurrent ==
  /\ pc = "idle"
  /\ result.status = "returned"
  /\ result = validateAllData(clients, workers, tasks, rules)

\* C17: after any sequence of changes to the page's clients, workers, tasks
\* or rules the validation shown is eventually that of the current state,
\* the previous one being replaced as a whole.
C17_ShowsCurrentEventually == []<>ShowsCurrent

\* The same, for the pages whose effect never throws.
C17_UnlessThrown == (<>(result.status = "threw")) \/ []<>ShowsCurrent

\* The phases some task prefers and no worker offers.
UnofferedPhases ==
  UNION {Phases(Field(tasks[i], "PreferredPhases")) : i \in DOMAIN tasks}
    \ UNION {Phases(Field(workers[i], "AvailableSlots")) : i \in DOMAIN workers}

\* C18: demand is counted for every phase a task prefers, also when no
\* worker offers the phase: such a phase (total 0, used the sum of the
\* durations of the tasks that prefer it) is reported as oversaturated.
C18_UnofferedPhaseReported ==
  (HasReturned /\ WellFormedCapacity)
  => \A p \in UnofferedPhases :
       InSummary(Msg("Phase % is oversaturated: % slots needed, % available",
                     << StrOfNum(p), StrOfNum(UsedOf(p)), StrOfNum(0) >>))

\* The IDs of the i-th client's parsed RequestedTaskIDs that are the TaskID
\* of no task.
UnknownIds(i) ==
  {id \in SkillsNamed(Field(clients[i], "RequestedTaskIDs")) : Str(id) \notin TaskIdSet(tasks)}

\* The summary lines that name id for the i-th client.
ReferenceLinesOf(i, id) ==
  {j \in DOMAIN result.summary :
     /\ result.summary[j].tpl = "clients: Row % requests unknown task '%'"
     /\ result.summary[j].args[1] = StrOfNum(i)
     /\ Trim(result.summary[j].args[2]) = id}

\* The RequestedTaskIDs field error under key names id.
FieldErrorNames(key, id) ==
  /\ HasErr(result.errors, "clients", key, "RequestedTaskIDs")
  /\ \E j \in DOMAIN result.errors["clients"][key]["RequestedTaskIDs"] :
       /\ result.errors["clients"][key]["RequestedTaskIDs"][j].tpl = "Unknown task ID: %"
       /\ Trim(result.errors["clients"][key]["RequestedTaskIDs"][j].args[1]) = id

\* C19: every ID of a client's parsed RequestedTaskIDs that is the TaskID of
\* no task has its summary message, and the client's RequestedTaskIDs field
\* error names all the client's unmatched IDs.
C19_UnknownIdsAccumulate ==
  HasReturned
  => \A i \in DOMAIN clients : \A id \in UnknownIds(i) :
       /\ ReferenceLinesOf(i, id) # {}
       /\ FieldErrorNames(KeyOfRow(clients[i], i), id)

\* Some coRun rule lists two distinct tasks.
HasCoRunPair == \E i \in DOMAIN CoRunRules : Cardinality(TaskSet(CoRunRules[i])) >= 2

CycleLines ==
  {j \in DOMAIN result.summary :
     result.summary[j].tpl = "Circular co-run dependency detected involving task %"}

CycleHints == {j \in DOMAIN result.suggestions : result.suggestions[j] = CycleSuggestion}

\* C20: the cycle check reports at most once per run: exactly one summary
\* line and exactly one suggestion when some coRun rule lists two distinct
\* tasks, however many cycles the merged graph has, and nothing otherwise.
C20_ReportsOnce ==
  HasReturned
  => IF HasCoRunPair
     THEN Cardinality(CycleLines) = 1 /\ Cardinality(CycleHints) = 1
     ELSE CycleLines = {} /\ CycleHints = {}

\* Three rules that close a loop of three tasks, reported in one line.
C20_Witness ==
  /\ HasReturned
  /\ Len(CoRunRules) = 3
  /\ \A i \in DOMAIN CoRunRules : Cardinality(TaskSet(CoRunRules[i])) = 2
  /\ Cardinality(CoRunTasks) = 3
  /\ Cardinality(CycleLines) = 1

\* The i-th row of entity has a line of the list checker for field.
WasReported(entity, i, field) ==
  \E j \in DOMAIN result.summary :
    /\ result.summary[j].tpl \in {"%: Row % has malformed list in %",
                                  "%: Row % has non-numeric values in %: %"}
    /\ SubSeq(result.summary[j].args, 1, 3) = << Lit(entity), StrOfNum(i), Lit(field) >>

\* The rows of an entity that the list checker did not report for field.
RECURSIVE Unreported(_, _, _, _)
Unreported(entity, rows, i, field) ==
  IF i > Len(rows) THEN <<>>
  ELSE (IF WasReported(entity, i, field) THEN <<>> ELSE << rows[i] >>)
       \o Unreported(entity, rows, i + 1, field)

PhaseReport(lines) ==
  SelectSeq(lines, LAMBDA m : m.tpl = "Phase % is oversaturated: % slots needed, % available")

ConcurrencyLinesOf(i) ==
  {j \in DOMAIN result.summary :
     result.summary[j] = Msg("tasks: Row % max concurrency not feasible", << StrOfNum(i) >>)}

\* C21: a worker whose AvailableSlots the list checker reported (invalid list
\* or non-numeric entries) has no overload line and adds nothing to a phase
\* total; a task whose RequiredSkills or PreferredPhases was reported has no
\* skill coverage line, no concurrency line and adds nothing to a phase's
\* demand: the phase lines are those of the unreported rows alone.
C21_UnparsedExcluded ==
  HasReturned
  => /\ \A i \in DOMAIN workers :
          WasReported("workers", i, "AvailableSlots") => OverloadLinesOf(i) = {}
     /\ \A i \in DOMAIN tasks :
          WasReported("tasks", i, "RequiredSkills")
          => /\ ConcurrencyLinesOf(i) = {}
             /\ \A j \in DOMAIN result.summary :
                  result.summary[j].tpl = "tasks: Row % requires skill '%' not found in any worker"
                  => result.summary[j].args[1] # StrOfNum(i)
     /\ PhaseReport(result.summary)
          = checkPhaseSlotSaturation(FreshResult,
                                     Unreported("workers", workers, 1, "AvailableSlots"),
                                     Unreported("tasks", tasks, 1, "PreferredPhases")).summary

\* The workers that share a skill with the i-th task.
QualifiedFor(i) ==
  {w \in DOMAIN workers :
     SkillsNamed(Field(workers[w], "Skills"))
       \cap SkillsNamed(Field(tasks[i], "RequiredSkills")) # {}}

HasInfeasibleError(key) ==
  /\ HasErr(result.errors, "tasks", key, "MaxConcurrent")
  /\ \E j \in DOMAIN result.errors.tasks[key]["MaxConcurrent"] :
       result.errors.tasks[key]["MaxConcurrent"][j].tpl
         = "Max concurrent (%) exceeds qualified workers (%)"

\* The tasks flagged as infeasible are those with fewer qualified workers
\* than `limit`.
InfeasibleFlagged(i, limit) ==
  IF limit.t = "num" /\ Cardinality(QualifiedFor(i)) < limit.n
  THEN Cardinality(ConcurrencyLinesOf(i)) = 1 /\ HasInfeasibleError(KeyOfRow(tasks[i], i))
  ELSE ConcurrencyLinesOf(i) = {}

\* C22: a task whose non-empty RequiredSkills parses is flagged as infeasible
\* (field error on MaxConcurrent plus one summary line) exactly when the number
\* of workers sharing at least one skill with it is less than its
\* MaxConcurrent, 1 when that is absent.
C22_Concurrency ==
  HasReturned
  => \A i \in DOMAIN tasks :
       (/\ Truthy(Field(tasks[i], "RequiredSkills"))
        /\ ListOf(Field(tasks[i], "RequiredSkills"), "trim").ok)
       => InfeasibleFlagged(i, IF IsAbsent(Field(tasks[i], "MaxConcurrent"))
                               THEN Num(1)
                               ELSE NumberOf(Field(tasks[i], "MaxConcurrent")))

\* The checks whose messages a stored field error holds; every check has a
\* message template of its own.
ChecksIn(fieldError) == {fieldError[j].tpl : j \in DOMAIN fieldError}

\* C23: a field error of the returned result holds the message of one check
\* only, the one that ran last on that field of that row, with no text of an
\* earlier check's message left in it.
C23_LastWriteWins ==
  HasReturned
  => \A entity \in Entities : \A key \in DOMAIN result.errors[entity] :
       \A field \in DOMAIN result.errors[entity][key] :
         Cardinality(ChecksIn(result.errors[entity][key][field])) = 1

\* The rows with the numeric strings of field replaced by their numbers.
Numbered(rows, field) ==
  [i \in DOMAIN rows |->
     IF IsStr(Field(rows[i], field)) /\ NumberOf(Field(rows[i], field)).t = "num"
     THEN Override(rows[i], field :> NumberOf(Field(rows[i], field)))
     ELSE rows[i]]

\* C24: the phase lines of a result are those of the same workers and tasks
\* with every MaxLoadPerPhase and Duration given as a number: the encoding
\* of the numeric fields changes neither the oversaturated phases nor their
\* counts.
C24_EncodingIndependent ==
  HasReturned
  => PhaseReport(result.summary)
       = checkPhaseSlotSaturation(FreshResult, Numbered(workers, "MaxLoadPerPhase"),
                                  Numbered(tasks, "Duration")).summary

\* The place in the sequence of checks of the check that writes message m:
\* the checks of clients, of workers, of tasks, the task references, the
\* skill coverage, the cycle check, the phase saturation.
StageOf(m) ==
  CASE m.tpl = "clients: Row % requests unknown task '%'" -> 4
    [] m.tpl = "tasks: Row % requires skill '%' not found in any worker" -> 5
    [] m.tpl = "Circular co-run dependency detected involving task %" -> 6
    [] m.tpl = "Phase % is oversaturated: % slots needed, % available" -> 7
    [] m.tpl = "workers: Row % worker is overloaded" -> 2
    [] m.tpl = "tasks: Row % max concurrency not feasible" -> 3
    [] OTHER -> CASE m.args[1] = Lit("clients") -> 1
                  [] m.args[1] = Lit("workers") -> 2
                  [] m.args[1] = Lit("tasks") -> 3

InCheckOrder(lines) ==
  \A j, k \in DOMAIN lines : j < k => StageOf(lines[j]) <= StageOf(lines[k])

IsPrefixOf(xs, ys) == Len(xs) <= Len(ys) /\ SubSeq(ys, 1, Len(xs)) = xs

\* C25: the summary is append-only and in the order of the checks: every step
\* of an invocation keeps the lines written so far as a prefix (a new
\* invocation starts from none), and in every summary the lines of the
\* clients checks precede those of the workers checks, then the tasks checks,
\* the task references, the skill coverage, the cycle and the phases.
C25_SummaryInCheckOrder ==
  [][/\ (pc = "idle" /\ summary' = <<>>) \/ IsPrefixOf(summary, summary')
     /\ InCheckOrder(summary')
     /\ InCheckOrder(result'.summary)]_vars

C25_Witness ==
  /\ HasReturned
  /\ \E j, k, l \in DOMAIN result.summary :
       /\ j < k /\ k < l
       /\ StageOf(result.summary[j]) = 3
       /\ StageOf(result.summary[k]) = 5
       /\ StageOf(result.summary[l]) = 7

\* C26: rules of a kind other than coRun never influence the result: with
\* any rules given, the result is that of the same rows with the coRun rules
\* alone, and its errors are those of the same rows with no rule at all.
C26_OnlyCoRunRulesCount ==
  (HasReturned /\ rules # <<>>)
  => /\ result = validateAllData(clients, workers, tasks, CoRunRules)
     /\ result.errors = validateAllData(clients, workers, tasks, <<>>).errors

C26_Witness ==
  /\ HasReturned
  /\ HasCycleMessage
  /\ \E i, j \in DOMAIN rules : rules[i].type = "loadLimit" /\ rules[j].type = "phaseWindow"

\* The list without its idx-th element.
Without(xs, idx) == [i \in 1..(Len(xs) - 1) |-> IF i < idx THEN xs[i] ELSE xs[i + 1]]

\* C27: no rule is lost from the page's rule list: a step that changes the
\* list handed to validateAllData either adds one rule behind the rules it
\* held or deletes one of them, whichever path (rule builder, natural
\* language, recommendations) the change comes from.
C27_NoRuleLost ==
  [][\/ rules' = rules
     \/ Len(rules') = Len(rules) + 1 /\ IsPrefixOf(rules, rules')
     \/ \E idx \in DOMAIN rules : rules' = Without(rules, idx)]_vars

\* At most one row of `before` differs in `after`, and none is missing.
OneRowChanged(before, after) ==
  /\ Len(after) = Len(before)
  /\ Cardinality({j \in DOMAIN before : after[j] # before[j]}) <= 1

\* C28: an edit of one cell in a grid changes only the edited row: every
\* other row of the entity's full collection is still there and unchanged,
\* also when a search is active and the grid shows the filtered rows.
C28_EditChangesOneRow ==
  [][processRowUpdate
       => /\ OneRowChanged(clients, clients')
          /\ OneRowChanged(workers, workers')
          /\ OneRowChanged(tasks, tasks')]_vars

\* The row a correction key names carries the markers of its column.
HasMarkers(rows, key) ==
  /\ key[2] \in DOMAIN rows[key[1]]
  /\ (key[3] \o "_fixed") \in DOMAIN rows[key[1]][key[2]]
  /\ (key[3] \o "_suggestion") \in DOMAIN rows[key[1]][key[2]]

\* C29: after Apply All Corrections every suggestion newly marked as applied
\* has taken effect: the row it targets carries its <column>_fixed and
\* <column>_suggestion markers, also when several suggestions target rows of
\* the same entity.
C29_AppliedHasTakenEffect ==
  [][applyAllCorrections
       => \A key \in appliedCorrections' \ appliedCorrections :
            HasMarkers([clients |-> clients', workers |-> workers', tasks |-> tasks'], key)]_vars

\* C30: errors of different rows never share an entry: two distinct rows of
\* one collection are never recorded under the same key of the errors map,
\* whether their identity values are equal or they have no id.
C30_KeysDistinct ==
  HasReturned
  => \A entity \in Entities : \A i, j \in DOMAIN RowsOf(entity) :
       (i < j /\ KeyOfRow(RowsOf(entity)[i], i) \in DOMAIN result.errors[entity])
       => KeyOfRow(RowsOf(entity)[j], j) # KeyOfRow(RowsOf(entity)[i], i)
====
